---- MODULE Spec2Model ----
(***************************************************************************)
(* A model of the DeepSpeed training engine (deepspeed/pt/deepspeed_light  *)
(* .py, class DeepSpeedLight): the accumulate -> reduce -> step controller *)
(* run by every rank of a data-parallel group, and the bucketed gradient   *)
(* reduction it calls at accumulation boundaries.                          *)
(***************************************************************************)
EXTENDS Integers, Sequences, FiniteSets, TLC

(***************************************************************************)
(* Bounds of the model.                                                    *)
(***************************************************************************)
NumRanks == 2
MaxMicro == 4
MaxK == 2
MaxParams == 3
MaxNumel == 2
MaxThreshold == 3

MaxFallbackParams == 2

MaxRows == 2

MaxNameRank == 11

MaxMP == 2

MaxWorld == 4

(* deepspeed_constants, imported by the engine *)
ZERO_OPTIMIZATION_OPTIMIZER_STATES == 1
ZERO_OPTIMIZATION_GRADIENTS == 2

VARIABLES
    dp_world_size,   \* the number of ranks of the data-parallel group
    config,          \* the DeepSpeedConfig values the engine reads (same on every rank)
    script,          \* the allreduce_gradients argument the training loop passes to backward() at each micro-step
    engine,          \* per rank: the engine's counters and the collaborators' call counts
    pc,              \* per rank: where the rank's training loop is
    reduce_log,      \* per rank: the gradient-reduction collectives it has issued, in order
    ovf_flags,       \* the optimizer's overflow collective in progress: each rank's contribution
    ovf_results,     \* the results of the completed overflow collectives, in order
    ovf_round,       \* per rank: how many overflow collectives it has entered
    decision_log,    \* per rank: "skip" or "apply" at each boundary step() it completed
    step_calls,      \* per rank: the number of step() calls it has completed
    step_pre,        \* per rank: the engine state when its step() call in progress began
    last,            \* per rank: the last completed step() call (boundary, overflow, state before and after)
    query,           \* per rank: the last is_gradient_accumulation_boundary() call and its result
    rcfg,            \* the configuration values the gradient reduction reads
    params,          \* module.named_parameters(), in order: each parameter's numel, dtype, and whether it is an Embedding weight
    grad,            \* per rank and parameter: param.grad (absent or its elements)
    grad_in,         \* per rank and parameter: param.grad when the reduction was called
    rphase,          \* the reduction call: "ready", "done", or "diverged" (the ranks' collectives did not match)
    calls,           \* per rank: the collective calls the reduction issued, in order
    flushed,         \* per rank: the buckets allreduce_no_retain flushed, in order, as lists of tensor positions
    sparse_in,       \* per rank: the sparse gradient (indices, values) a sparse collective is called with
    sparse_out,      \* the sparse collective called and what it returned on each rank
    names,           \* a query of the checkpoint file names of two ranks, and the names returned
    mp_world_size,   \* the model-parallel degree (1 when there is no mpu)
    client_state,    \* the client_state argument save_checkpoint is called with: a dictionary
    dirs,            \* the file system: the directories that exist
    files,           \* the file system: the files that exist, path to content
    save,            \* per global rank: where its save_checkpoint call is
    write_log,       \* the checkpoint files written, in order, with the writing rank
    loader,          \* the engine that calls load_checkpoint: its rank and the state a load replaces
    load_result,     \* the load_checkpoint call made: what it returned and what it called
    init_args,       \* the arguments DeepSpeedLight(...) is constructed with, the same on every rank
    construct,       \* per global rank: where its constructor is and the attributes it has set
    parallel_groups, \* the group size _initialize_parameter_parallel_groups is called with, and per global rank what its call returned
    autograd,        \* the losses backward() was called with in this accumulation cycle, what it propagated, and param.grad
    progress         \* steps_per_print, and per step() call its report_progress flag and what it reported

ctlVars == <<dp_world_size, config, script, engine, pc, reduce_log, ovf_flags,
             ovf_results, ovf_round, decision_log, step_calls, step_pre, last, query>>

redVars == <<rcfg, params, grad, grad_in, rphase, calls, flushed>>

csrVars == <<sparse_in, sparse_out>>

(* What the training loop's calls leave alone. *)
ckptVars == <<names, mp_world_size, client_state, dirs, files, save, write_log, loader, load_result>>

conVars == <<init_args, construct, parallel_groups>>

lossVars == <<autograd>>

logVars == <<progress>>

sideVars == <<redVars, csrVars, ckptVars, conVars, lossVars, logVars>>

vars == <<ctlVars, sideVars>>

(* The ranks of the data-parallel group. *)
Ranks == 0 .. (dp_world_size - 1)

(***************************************************************************)
(* Configuration accessors.                                                *)
(***************************************************************************)
gradient_accumulation_steps == config.gradient_accumulation_steps

zero_optimization_stage == config.zero_optimization_stage

zero_optimization == config.zero_optimization_stage > 0

zero_optimization_partition_gradients ==
    zero_optimization_stage >= ZERO_OPTIMIZATION_GRADIENTS

fp16_enabled == config.fp16_enabled

amp_enabled == config.amp_enabled

gradient_clipping == config.gradient_clipping

(* The optimizer object built by _configure_optimizer: the ZeRO and fp16   *)
(* wrappers carry an overflow attribute, a basic or amp-patched optimizer  *)
(* does not.                                                               *)
OptimizerHasOverflow == zero_optimization \/ (fp16_enabled /\ ~amp_enabled)

(* The configurations construction accepts. *)
ConfigOK(c) ==
    /\ (c.zero_optimization_stage > 0 => ~c.amp_enabled /\ c.fp16_enabled)
    /\ (c.amp_enabled => ~c.fp16_enabled)
    /\ (c.zero_optimization_stage = ZERO_OPTIMIZATION_OPTIMIZER_STATES => c.zero_reduce_scatter)
    /\ (c.zero_optimization_stage = ZERO_OPTIMIZATION_GRADIENTS => c.gradient_accumulation_steps = 1)

Configs ==
    { c \in [ gradient_accumulation_steps : 1 .. MaxK,
              zero_optimization_stage : 0 .. 2,
              zero_reduce_scatter : {TRUE},
              fp16_enabled : BOOLEAN,
              amp_enabled : BOOLEAN,
              gradient_clipping : BOOLEAN,
              has_lr_scheduler : BOOLEAN ] : ConfigOK(c) }

(***************************************************************************)
(* DeepSpeedLight.__init__: the counters of a freshly constructed engine.  *)
(***************************************************************************)
NewEngine ==
    [ global_steps |-> 0,
      micro_steps |-> 0,
      skipped_steps |-> 0,
      lr_steps |-> 0,        \* lr_scheduler.step() calls
      opt_steps |-> 0,       \* optimizer.step() calls
      zero_grads |-> 0,      \* zero_grad() calls (the engine's or the optimizer's)
      clips |-> 0,           \* gradient clipping calls
      grad_count |-> 0,      \* micro-step gradients accumulated in param.grad
      grad_reduced |-> FALSE,  \* whether the accumulated gradient has been reduced
      grad_nonfinite |-> FALSE \* whether the rank's accumulated gradient holds a non-finite value
    ]

NoCall == [ made |-> FALSE ]

(* The training loops considered: backward() is called with the default    *)
(* allreduce_gradients=True, except at no more than one micro-step.        *)
Scripts ==
    { s \in [0 .. (MaxMicro - 1) -> BOOLEAN] :
        Cardinality({m \in 0 .. (MaxMicro - 1) : ~s[m]}) <= 1 }

(* No gradient reduction under way. *)
NoReduction ==
    /\ rcfg = [ none |-> TRUE ]
    /\ params = <<>>
    /\ grad = <<>>
    /\ grad_in = <<>>
    /\ rphase = "idle"
    /\ calls = <<>>
    /\ flushed = <<>>

(* No sparse collective called. *)
NoGather ==
    /\ sparse_in = <<>>
    /\ sparse_out = [ op |-> "none" ]

(* No checkpoint call made, nothing on disk. *)
NoCheckpoint ==
    /\ names = [ made |-> FALSE ]
    /\ mp_world_size = 1
    /\ client_state = <<>>
    /\ dirs = {}
    /\ files = <<>>
    /\ save = <<>>
    /\ write_log = <<>>
    /\ loader = [ none |-> TRUE ]
    /\ load_result = [ made |-> FALSE ]

(* The engines exist: no constructor is followed. *)
NoConstruction ==
    /\ init_args = [ none |-> TRUE ]
    /\ parallel_groups = [ none |-> TRUE ]
    /\ construct = <<>>

(* No loss followed through backward(). *)
NoLoss == autograd = [ none |-> TRUE ]

(* Where the progress reports of step() are not followed. *)
NoProgress == progress = [ none |-> TRUE ]

(* Every rank's engine holds the counters e0. *)
InitControllerFrom(world_size, configs, scripts, e0) ==
    /\ dp_world_size = world_size
    /\ config \in configs
    /\ script \in scripts
    /\ engine = [r \in Ranks |-> e0]
    /\ pc = [r \in Ranks |-> "idle"]
    /\ reduce_log = [r \in Ranks |-> <<>>]
    /\ ovf_flags = [r \in Ranks |-> "none"]
    /\ ovf_results = <<>>
    /\ ovf_round = [r \in Ranks |-> 0]
    /\ decision_log = [r \in Ranks |-> <<>>]
    /\ step_calls = [r \in Ranks |-> 0]
    /\ step_pre = [r \in Ranks |-> NewEngine]
    /\ last = [r \in Ranks |-> NoCall]
    /\ query = [r \in Ranks |-> NoCall]

InitController(world_size, configs, scripts) ==
    InitControllerFrom(world_size, configs, scripts, NewEngine)

InitEngines(world_size, configs, scripts) ==
    /\ NoReduction
    /\ NoGather
    /\ NoConstruction
    /\ NoLoss
    /\ NoProgress
    /\ NoCheckpoint
    /\ InitController(world_size, configs, scripts)

(* Mutant: the boundary is taken where micro_steps, not micro_steps + 1,   *)
(* is a multiple of the accumulation steps.                                *)
boundary_MicroStepsModK(e) ==
    e.micro_steps % gradient_accumulation_steps = 0

(***************************************************************************)
(* is_gradient_accumulation_boundary                                       *)
(***************************************************************************)
is_gradient_accumulation_boundary(e) ==
    (e.micro_steps + 1) % gradient_accumulation_steps = 0

(* A caller asks the predicate; nothing of the engine changes. *)
QueryBoundary(r) ==
    /\ pc[r] = "idle"
    /\ query' = [query EXCEPT ![r] =
                    [ made |-> TRUE,
                      result |-> is_gradient_accumulation_boundary(engine[r]),
                      before |-> engine[r] ]]
    /\ UNCHANGED sideVars /\ UNCHANGED <<dp_world_size, config, script, engine, pc, reduce_log, ovf_flags,
                   ovf_results, ovf_round, decision_log, step_calls, step_pre, last>>

(***************************************************************************)
(* forward: a pass-through to the module.                                  *)
(***************************************************************************)
Forward(r) ==
    /\ pc[r] = "idle"
    /\ step_calls[r] < MaxMicro
    /\ pc' = [pc EXCEPT ![r] = "forward_done"]
    /\ query' = [query EXCEPT ![r] = NoCall]
    /\ UNCHANGED sideVars /\ UNCHANGED <<dp_world_size, config, script, engine, reduce_log, ovf_flags,
                   ovf_results, ovf_round, decision_log, step_calls, step_pre, last>>

(* Mutant: a rank whose local gradient is non-finite skips the reduction.  *)
allreduce_gradients_SkipNonfinite(e) ==
    IF is_gradient_accumulation_boundary(e) /\ ~e.grad_nonfinite
    THEN IF zero_optimization_stage = ZERO_OPTIMIZATION_OPTIMIZER_STATES
         THEN "reduce_scatter_gradients"
         ELSE IF zero_optimization_partition_gradients
         THEN "overlapping_partition_gradients_reduce_epilogue"
         ELSE "buffered_allreduce_fallback"
    ELSE "none"

(* Mutant: the reduction is issued at every micro-step.                    *)
allreduce_gradients_EveryMicroStep(e) ==
    IF zero_optimization_stage = ZERO_OPTIMIZATION_OPTIMIZER_STATES
    THEN "reduce_scatter_gradients"
    ELSE IF zero_optimization_partition_gradients
    THEN "overlapping_partition_gradients_reduce_epilogue"
    ELSE "buffered_allreduce_fallback"

(***************************************************************************)
(* allreduce_gradients: which reduction, if any, the call issues.          *)
(***************************************************************************)
allreduce_gradients(e) ==
    IF is_gradient_accumulation_boundary(e)
    THEN IF zero_optimization_stage = ZERO_OPTIMIZATION_OPTIMIZER_STATES
         THEN "reduce_scatter_gradients"
         ELSE IF zero_optimization_partition_gradients
         THEN "overlapping_partition_gradients_reduce_epilogue"
         ELSE "buffered_allreduce_fallback"
    ELSE "none"

(***************************************************************************)
(* backward: accumulates the micro-step's gradient, then reduces at a      *)
(* boundary. The reduction is a collective: the call returns only when     *)
(* every rank of the group has entered it (see ReduceReturn).              *)
(***************************************************************************)
Backward(r) ==
    /\ pc[r] = "forward_done"
    /\ \E nonfinite \in BOOLEAN :
          LET e == [engine[r] EXCEPT !.grad_count = @ + 1,
                                     !.grad_nonfinite = @ \/ nonfinite]
              kind == IF script[step_calls[r]] THEN allreduce_gradients(e) ELSE "none"
          IN  /\ engine' = [engine EXCEPT ![r] = e]
              /\ IF kind = "none"
                 THEN /\ pc' = [pc EXCEPT ![r] = "backward_done"]
                      /\ UNCHANGED reduce_log
                 ELSE /\ pc' = [pc EXCEPT ![r] = "in_reduce"]
                      /\ reduce_log' = [reduce_log EXCEPT ![r] =
                             Append(@, [micro_steps |-> e.micro_steps, kind |-> kind])]
    /\ UNCHANGED sideVars /\ UNCHANGED <<dp_world_size, config, script, ovf_flags, ovf_results, ovf_round, decision_log,
                   step_calls, step_pre, last, query>>

(* The reduction collective completes on rank r once every rank has issued *)
(* its matching call.                                                      *)
ReduceReturn(r) ==
    /\ pc[r] = "in_reduce"
    /\ \A q \in Ranks :
          /\ Len(reduce_log[q]) >= Len(reduce_log[r])
          /\ reduce_log[q][Len(reduce_log[r])] = reduce_log[r][Len(reduce_log[r])]
    /\ engine' = [engine EXCEPT ![r].grad_reduced = TRUE]
    /\ pc' = [pc EXCEPT ![r] = "backward_done"]
    /\ UNCHANGED sideVars /\ UNCHANGED <<dp_world_size, config, script, reduce_log, ovf_flags, ovf_results,
                   ovf_round, decision_log, step_calls, step_pre, last, query>>

(***************************************************************************)
(* step, up to and including the call of optimizer.step(): the optional    *)
(* gradient clipping, then the optimizer's step.                           *)
(***************************************************************************)
StepHead(e) ==
    LET clipped == IF gradient_clipping /\ (~fp16_enabled \/ amp_enabled)
                   THEN [e EXCEPT !.clips = @ + 1]
                   ELSE e
    IN  [clipped EXCEPT !.opt_steps = @ + 1]

(* Mutant: global_steps is counted only when the step is applied.          *)
StepTail_GlobalStepsOnlyWhenApplied(e, overflow) ==
    LET zeroed == [e EXCEPT !.zero_grads = @ + 1,
                            !.grad_count = 0,
                            !.grad_reduced = FALSE,
                            !.grad_nonfinite = FALSE]
    IN  IF overflow
        THEN [zeroed EXCEPT !.skipped_steps = @ + 1, !.micro_steps = @ + 1]
        ELSE [zeroed EXCEPT !.lr_steps = IF config.has_lr_scheduler THEN @ + 1 ELSE @,
                            !.global_steps = @ + 1,
                            !.micro_steps = @ + 1]

(* Mutant: an overflow is not counted in skipped_steps.                    *)
StepTail_SkipNotCounted(e, overflow) ==
    LET zeroed == [e EXCEPT !.zero_grads = @ + 1,
                            !.grad_count = 0,
                            !.grad_reduced = FALSE,
                            !.grad_nonfinite = FALSE]
        counted == IF ~overflow /\ config.has_lr_scheduler
                   THEN [zeroed EXCEPT !.lr_steps = @ + 1]
                   ELSE zeroed
    IN  [counted EXCEPT !.global_steps = @ + 1,
                        !.micro_steps = @ + 1]

(* Mutant: the schedule is advanced whether or not the step overflowed.    *)
StepTail_ScheduleAlwaysAdvanced(e, overflow) ==
    LET zeroed == [e EXCEPT !.zero_grads = @ + 1,
                            !.grad_count = 0,
                            !.grad_reduced = FALSE,
                            !.grad_nonfinite = FALSE]
        skipped == IF overflow
                   THEN [zeroed EXCEPT !.skipped_steps = @ + 1]
                   ELSE zeroed
        counted == IF config.has_lr_scheduler
                   THEN [skipped EXCEPT !.lr_steps = @ + 1]
                   ELSE skipped
    IN  [counted EXCEPT !.global_steps = @ + 1,
                        !.micro_steps = @ + 1]

(***************************************************************************)
(* step, after optimizer.step() returned: zero_grad, the overflow          *)
(* bookkeeping, the counters.                                              *)
(***************************************************************************)
StepTail(e, overflow) ==
    LET zeroed == [e EXCEPT !.zero_grads = @ + 1,
                            !.grad_count = 0,
                            !.grad_reduced = FALSE,
                            !.grad_nonfinite = FALSE]
        counted == IF overflow
                   THEN [zeroed EXCEPT !.skipped_steps = @ + 1]
                   ELSE IF config.has_lr_scheduler
                        THEN [zeroed EXCEPT !.lr_steps = @ + 1]
                        ELSE zeroed
    IN  [counted EXCEPT !.global_steps = @ + 1,
                        !.micro_steps = @ + 1]

(* Mutant: micro_steps is counted only at a boundary.                      *)
StepNonBoundary_NoMicroStep(e) == e

(* Mutant: zero_grad runs on every step(), boundary or not.                *)
StepNonBoundary_ZeroGrad(e) ==
    [e EXCEPT !.zero_grads = @ + 1,
              !.grad_count = 0,
              !.grad_reduced = FALSE,
              !.grad_nonfinite = FALSE,
              !.micro_steps = @ + 1]

(* step when is_gradient_accumulation_boundary() is false *)
StepNonBoundary(e) == [e EXCEPT !.micro_steps = @ + 1]

(***************************************************************************)
(* optimizer.step() of the fp16 and ZeRO wrappers: the rank's local        *)
(* non-finite flag is combined with a logical OR over the data-parallel    *)
(* group, and the result becomes optimizer.overflow on every rank.         *)
(***************************************************************************)
OverflowCombine(flags) == \E q \in Ranks : flags[q] = "nonfinite"

OverflowJoin(r) ==
    LET joined == [ovf_flags EXCEPT ![r] =
                      IF engine[r].grad_nonfinite THEN "nonfinite" ELSE "finite"]
    IN  /\ ovf_round' = [ovf_round EXCEPT ![r] = @ + 1]
        /\ IF \A q \in Ranks : joined[q] # "none"
           THEN /\ ovf_results' = Append(ovf_results, OverflowCombine(joined))
                /\ ovf_flags' = [q \in Ranks |-> "none"]
           ELSE /\ ovf_flags' = joined
                /\ UNCHANGED ovf_results

(* Mutant: the rank decides on its own gradient's flag.                    *)
ReadOverflow_LocalFlag(r) ==
    IF OptimizerHasOverflow THEN engine[r].grad_nonfinite ELSE FALSE

(* overflow = self.optimizer.overflow if the optimizer has the attribute *)
ReadOverflow(r) ==
    IF OptimizerHasOverflow THEN ovf_results[ovf_round[r]] ELSE FALSE

StepRecord(before, after, boundary, overflow) ==
    [ made |-> TRUE, boundary |-> boundary, overflow |-> overflow,
      before |-> before, after |-> after ]

(* What a completed boundary step() did: counted the step as skipped, or   *)
(* applied it.                                                             *)
Decision(before, after) ==
    IF after.skipped_steps = before.skipped_steps + 1 /\ after.lr_steps = before.lr_steps
    THEN "skip"
    ELSE IF after.skipped_steps = before.skipped_steps
    THEN "apply"
    ELSE "other"

(***************************************************************************)
(* step(). With an optimizer that combines its overflow flag across the    *)
(* group, the call blocks inside optimizer.step() until every rank has     *)
(* entered it, and StepReturn is the rest of the call.                     *)
(***************************************************************************)
Step(r) ==
    /\ pc[r] = "backward_done"
    /\ IF ~is_gradient_accumulation_boundary(engine[r])
       THEN /\ engine' = [engine EXCEPT ![r] = StepNonBoundary(@)]
            /\ last' = [last EXCEPT ![r] =
                           StepRecord(engine[r], StepNonBoundary(engine[r]), FALSE, FALSE)]
            /\ pc' = [pc EXCEPT ![r] = "idle"]
            /\ step_calls' = [step_calls EXCEPT ![r] = @ + 1]
            /\ UNCHANGED <<ovf_flags, ovf_results, ovf_round, decision_log, step_pre>>
       ELSE IF OptimizerHasOverflow
       THEN /\ engine' = [engine EXCEPT ![r] = StepHead(@)]
            /\ step_pre' = [step_pre EXCEPT ![r] = engine[r]]
            /\ OverflowJoin(r)
            /\ pc' = [pc EXCEPT ![r] = "in_optimizer_step"]
            /\ UNCHANGED <<decision_log, step_calls, last>>
       ELSE /\ engine' = [engine EXCEPT ![r] = StepTail(StepHead(@), ReadOverflow(r))]
            /\ last' = [last EXCEPT ![r] =
                           StepRecord(engine[r],
                                      StepTail(StepHead(engine[r]), ReadOverflow(r)),
                                      TRUE, ReadOverflow(r))]
            /\ decision_log' = [decision_log EXCEPT ![r] =
                   Append(@, Decision(engine[r],
                                      StepTail(StepHead(engine[r]), ReadOverflow(r))))]
            /\ pc' = [pc EXCEPT ![r] = "idle"]
            /\ step_calls' = [step_calls EXCEPT ![r] = @ + 1]
            /\ UNCHANGED <<ovf_flags, ovf_results, ovf_round, step_pre>>
    /\ UNCHANGED sideVars /\ UNCHANGED <<dp_world_size, config, script, reduce_log, query>>

StepReturn(r) ==
    /\ pc[r] = "in_optimizer_step"
    /\ Len(ovf_results) >= ovf_round[r]
    /\ engine' = [engine EXCEPT ![r] = StepTail(@, ReadOverflow(r))]
    /\ last' = [last EXCEPT ![r] =
                   StepRecord(step_pre[r], StepTail(engine[r], ReadOverflow(r)),
                              TRUE, ReadOverflow(r))]
    /\ decision_log' = [decision_log EXCEPT ![r] =
           Append(@, Decision(step_pre[r], StepTail(engine[r], ReadOverflow(r))))]
    /\ pc' = [pc EXCEPT ![r] = "idle"]
    /\ step_calls' = [step_calls EXCEPT ![r] = @ + 1]
    /\ UNCHANGED sideVars /\ UNCHANGED <<dp_world_size, config, script, reduce_log, ovf_flags, ovf_results,
                   ovf_round, step_pre, query>>

(***************************************************************************)
(* One engine on its own (a data-parallel group of one rank), in every     *)
(* configuration and with every training loop.                             *)
(***************************************************************************)
Init == InitEngines(1, Configs, Scripts)

Next ==
    \/ \E r \in Ranks : QueryBoundary(r)
    \/ \E r \in Ranks : Forward(r)
    \/ \E r \in Ranks : Backward(r)
    \/ \E r \in Ranks : ReduceReturn(r)
    \/ \E r \in Ranks : Step(r)
    \/ \E r \in Ranks : StepReturn(r)

Spec == Init /\ [][Next]_vars

(***************************************************************************)
(* A data-parallel group of NumRanks ranks running the same training loop, *)
(* each at its own pace, meeting in the collectives.                       *)
(***************************************************************************)
GroupConfigs ==
    { c \in Configs : c.has_lr_scheduler /\ ~c.gradient_clipping /\ ~c.amp_enabled }

(* backward() is called with allreduce_gradients=False at micro-step 0 or  *)
(* 1, or never.                                                            *)
GroupScripts == { s \in Scripts : \A m \in 2 .. (MaxMicro - 1) : s[m] }

GroupInit == InitEngines(NumRanks, GroupConfigs, GroupScripts)

GroupNext ==
    \/ \E r \in Ranks : Forward(r)
    \/ \E r \in Ranks : Backward(r)
    \/ \E r \in Ranks : ReduceReturn(r)
    \/ \E r \in Ranks : Step(r)
    \/ \E r \in Ranks : StepReturn(r)

GroupSpec == GroupInit /\ [][GroupNext]_vars

(***************************************************************************)
(*                     Gradient reduction                                  *)
(*                                                                         *)
(* Arithmetic is exact: a gradient value is a fraction <<n, d>> in lowest  *)
(* terms with d > 0. An element type decides how tensors are grouped and   *)
(* converted, not the values they can hold.                                *)
(***************************************************************************)
(* Once(v, F) is F(v), with v worked out a single time. *)
Once(v, F(_)) == CHOOSE y \in {F(x) : x \in {v}} : TRUE

RECURSIVE GCD(_, _)
GCD(a, b) == IF b = 0 THEN a ELSE GCD(b, a % b)

Abs(n) == IF n < 0 THEN -n ELSE n

Frac(n, d) == LET g == GCD(Abs(n), d) IN <<n \div g, d \div g>>

Zero == <<0, 1>>

Add(x, y) == Frac(x[1] * y[2] + y[1] * x[2], x[2] * y[2])

Mul(x, y) == Frac(x[1] * y[1], x[2] * y[2])

Zeros(n) == [i \in 1 .. n |-> Zero]

HalfTensor == "torch.cuda.HalfTensor"

FloatTensor == "torch.cuda.FloatTensor"

DoubleTensor == "torch.cuda.DoubleTensor"

BFloat16Tensor == "torch.cuda.BFloat16Tensor"

CSRTensorType == "deepspeed.CSRTensor"

(* The engine's gradient_average attribute, set in __init__. *)
gradient_average == TRUE

(* The default bucket size of allreduce_gradients. *)
MEMORY_OPT_ALLREDUCE_SIZE == 500000000

(* flatten / unflatten of a list of dense tensors *)
RECURSIVE flatten(_)
flatten(bucket) ==
    IF bucket = <<>> THEN <<>> ELSE Head(bucket) \o flatten(Tail(bucket))

RECURSIVE unflatten(_, _)
unflatten(flat, bucket) ==
    IF bucket = <<>>
    THEN <<>>
    ELSE <<SubSeq(flat, 1, Len(Head(bucket)))>>
             \o unflatten(SubSeq(flat, Len(Head(bucket)) + 1, Len(flat)), Tail(bucket))

(* dist.all_reduce over the data-parallel group: every rank's buffer       *)
(* becomes the element-wise sum of the ranks' buffers.                     *)
RECURSIVE SumRanks(_, _, _)
SumRanks(T, i, q) == IF q < 0 THEN Zero ELSE Add(T[q][i], SumRanks(T, i, q - 1))

all_reduce(T) ==
    Once([i \in 1 .. Len(T[0]) |-> SumRanks(T, i, dp_world_size - 1)],
         LAMBDA sum : [r \in Ranks |-> sum])

(* dist.all_gather: every rank's list holds every rank's tensor, by rank.  *)
all_gather(T) == [r \in Ranks |-> [d \in 1 .. dp_world_size |-> T[d - 1]]]

(***************************************************************************)
(* allreduce_bucket, on every rank of the group at once: B[r] is rank r's  *)
(* bucket, a list of dense tensors of element type `type`.                 *)
(***************************************************************************)
ScaleBeforeAllReduce(x) ==
    IF ~rcfg.prescale_gradients
    THEN IF rcfg.gradient_predivide_factor # 1
         THEN Mul(x, Frac(1, rcfg.gradient_predivide_factor))
         ELSE x
    ELSE Mul(x, Frac(1, dp_world_size))

(* Mutant: after the all-reduce the sum is divided by the world size,      *)
(* whatever it was divided by before.                                      *)
ScaleAfterAllReduce_IgnoresPredivide(x) ==
    IF ~rcfg.prescale_gradients
    THEN Mul(x, Frac(1, dp_world_size))
    ELSE x

ScaleAfterAllReduce(x) ==
    IF ~rcfg.prescale_gradients
    THEN IF gradient_average /\ rcfg.gradient_predivide_factor # dp_world_size
         THEN Mul(x, Frac(rcfg.gradient_predivide_factor, dp_world_size))
         ELSE x
    ELSE x

allreduce_bucket(B, type) ==
    LET \* tensor.float() is the tensor itself when it is a float tensor already
        converted == rcfg.allreduce_always_fp32 /\ type # FloatTensor
        copied_back == rcfg.allreduce_always_fp32 /\ converted
        Scaled(tensor, reduced) ==
            [r \in Ranks |->
                IF converted /\ ~copied_back
                THEN tensor[r]
                ELSE [i \in 1 .. Len(reduced[r]) |-> ScaleAfterAllReduce(reduced[r][i])]]
        Reduced(tensor, tensor_to_allreduce) ==
            Once(all_reduce(tensor_to_allreduce), LAMBDA reduced : Scaled(tensor, reduced))
        Flat(tensor) ==
            Once([r \in Ranks |->
                     [i \in 1 .. Len(tensor[r]) |-> ScaleBeforeAllReduce(tensor[r][i])]],
                 LAMBDA tensor_to_allreduce : Reduced(tensor, tensor_to_allreduce))
    IN  Once([r \in Ranks |-> flatten(B[r])], Flat)

(* allreduce_and_copy: the values copied back into the bucket's tensors *)
allreduce_and_copy(B, type) ==
    Once(allreduce_bucket(B, type),
         LAMBDA allreduced : [r \in Ranks |-> unflatten(allreduced[r], B[r])])

(***************************************************************************)
(* allreduce_no_retain: the loop over the tensors, as the list of small    *)
(* buckets it flushes, each the positions of its tensors.                  *)
(***************************************************************************)
RECURSIVE NoRetainLoop(_, _, _, _, _)
NoRetainLoop(numels, i, small_bucket, numel, numel_per_bucket) ==
    IF i > Len(numels)
    THEN IF Len(small_bucket) > 0 THEN <<small_bucket>> ELSE <<>>
    ELSE LET appended == Append(small_bucket, i)
             n == numel + numels[i]
         IN  IF n > numel_per_bucket
             THEN <<appended>> \o NoRetainLoop(numels, i + 1, <<>>, 0, numel_per_bucket)
             ELSE NoRetainLoop(numels, i + 1, appended, n, numel_per_bucket)

(* Mutant: the tensors left in small_bucket when the loop ends are not     *)
(* flushed.                                                                *)
RECURSIVE NoRetainLoop_NoFinalFlush(_, _, _, _, _)
NoRetainLoop_NoFinalFlush(numels, i, small_bucket, numel, numel_per_bucket) ==
    IF i > Len(numels)
    THEN <<>>
    ELSE LET appended == Append(small_bucket, i)
             n == numel + numels[i]
         IN  IF n > numel_per_bucket
             THEN <<appended>>
                      \o NoRetainLoop_NoFinalFlush(numels, i + 1, <<>>, 0, numel_per_bucket)
             ELSE NoRetainLoop_NoFinalFlush(numels, i + 1, appended, n, numel_per_bucket)

allreduce_no_retain_NoFinalFlush(numels, numel_per_bucket) ==
    NoRetainLoop_NoFinalFlush(numels, 1, <<>>, 0, numel_per_bucket)

(* Mutant: small_bucket is not emptied after a flush.                      *)
RECURSIVE NoRetainLoop_BucketKept(_, _, _, _, _)
NoRetainLoop_BucketKept(numels, i, small_bucket, numel, numel_per_bucket) ==
    IF i > Len(numels)
    THEN IF Len(small_bucket) > 0 THEN <<small_bucket>> ELSE <<>>
    ELSE LET appended == Append(small_bucket, i)
             n == numel + numels[i]
         IN  IF n > numel_per_bucket
             THEN <<appended>>
                      \o NoRetainLoop_BucketKept(numels, i + 1, appended, 0, numel_per_bucket)
             ELSE NoRetainLoop_BucketKept(numels, i + 1, appended, n, numel_per_bucket)

allreduce_no_retain_BucketKept(numels, numel_per_bucket) ==
    NoRetainLoop_BucketKept(numels, 1, <<>>, 0, numel_per_bucket)

allreduce_no_retain(numels, numel_per_bucket) ==
    NoRetainLoop(numels, 1, <<>>, 0, numel_per_bucket)


(***************************************************************************)
(* The sparse path. A CSRTensor of a dense gradient holds the indices of   *)
(* its non-zero rows and their values; to_dense adds the values up row by  *)
(* row. Rows have one column here.                                         *)
(***************************************************************************)
CSRTensor(dense) ==
    LET rows == SelectSeq([i \in 1 .. Len(dense) |-> i], LAMBDA i : dense[i] # Zero)
    IN  [ indices |-> rows,
          values |-> [k \in 1 .. Len(rows) |-> dense[rows[k]]],
          dense_size |-> Len(dense) ]

RECURSIVE ScatterAdd(_, _, _)
ScatterAdd(csr, row, k) ==
    IF k = 0
    THEN Zero
    ELSE Add(IF csr.indices[k] = row THEN csr.values[k] ELSE Zero,
             ScatterAdd(csr, row, k - 1))

to_dense(csr) ==
    [row \in 1 .. csr.dense_size |-> ScatterAdd(csr, row, Len(csr.indices))]

SeqMax(sizes) ==
    CHOOSE m \in {sizes[d] : d \in 1 .. Len(sizes)} :
        \A d \in 1 .. Len(sizes) : sizes[d] <= m

(* all_gather_scalar: every rank's list of the ranks' values *)
all_gather_scalar(value) == all_gather(value)

(* Mutant: the gathered tensors are returned as they were received, at the *)
(* padded length.                                                          *)
csr_all_gather_PaddingKept(value, zero) ==
    LET my_size == [r \in Ranks |-> Len(value[r])]
        all_sizes == all_gather_scalar(my_size)
        padded ==
            [r \in Ranks |->
                value[r] \o [i \in 1 .. (SeqMax(all_sizes[r]) - my_size[r]) |-> zero]]
    IN  all_gather(padded)

(* csr_all_gather, on every rank at once: value[r] is rank r's sequence,   *)
(* padded with `zero` to the longest, gathered, and cut back to each       *)
(* rank's own length.                                                      *)
csr_all_gather(value, zero) ==
    LET my_size == [r \in Ranks |-> Len(value[r])]
        all_sizes == all_gather_scalar(my_size)
        padded ==
            [r \in Ranks |->
                value[r] \o [i \in 1 .. (SeqMax(all_sizes[r]) - my_size[r]) |-> zero]]
        tensor_list == all_gather(padded)
    IN  [r \in Ranks |->
            [d \in 1 .. dp_world_size |->
                SubSeq(tensor_list[r][d], 1, all_sizes[r][d])]]

(* csr_allreduce, on every rank at once *)
csr_allreduce(csr) ==
    LET divided ==
            [r \in Ranks |->
                [k \in 1 .. Len(csr[r].values) |->
                    Mul(csr[r].values[k], Frac(1, dp_world_size))]]
        indices_device_list == csr_all_gather([r \in Ranks |-> csr[r].indices], 0)
        values_device_list == csr_all_gather(divided, Zero)
    IN  [r \in Ranks |->
            [ indices |-> flatten(indices_device_list[r]),
              values |-> flatten(values_device_list[r]),
              dense_size |-> csr[r].dense_size ]]

(***************************************************************************)
(* buffered_allreduce_fallback on rank r: the list of gradients it         *)
(* reduces. slot is the parameter whose param.grad the tensor is, or 0 for *)
(* a tensor of zeros made for a parameter with no gradient.                *)
(***************************************************************************)
GradEntries(r) ==
    [p \in 1 .. Len(params) |->
        IF ~grad[r][p].present
        THEN [ slot |-> 0, type |-> params[p].dtype, data |-> Zeros(params[p].numel) ]
        ELSE IF rcfg.sparse_gradients_enabled /\ params[p].embedding
        THEN [ slot |-> p, type |-> CSRTensorType, data |-> grad[r][p].data ]
        ELSE [ slot |-> p, type |-> params[p].dtype, data |-> grad[r][p].data ]]

(* split_half_float_double_csr *)
dtypes == <<HalfTensor, FloatTensor, DoubleTensor, CSRTensorType>>

RECURSIVE SplitFrom(_, _)
SplitFrom(tensors, i) ==
    IF i > Len(dtypes)
    THEN <<>>
    ELSE LET bucket == SelectSeq(tensors, LAMBDA t : t.type = dtypes[i])
         IN  (IF bucket # <<>> THEN << <<dtypes[i], bucket>> >> ELSE <<>>)
                 \o SplitFrom(tensors, i + 1)

split_half_float_double_csr(tensors) == SplitFrom(tensors, 1)

(***************************************************************************)
(* The collective operations one bucket of one type leads to, in order:    *)
(* one all_reduce per small bucket flushed, or one csr_allreduce per       *)
(* sparse gradient.                                                        *)
(***************************************************************************)
RECURSIVE SumSeq(_)
SumSeq(ns) == IF ns = <<>> THEN 0 ELSE Head(ns) + SumSeq(Tail(ns))

BucketOps(type, bucket, numel_per_bucket) ==
    IF type = CSRTensorType
    THEN [k \in 1 .. Len(bucket) |->
            [ kind |-> "csr_allreduce", type |-> type, numel |-> 0,
              entries |-> <<bucket[k]>> ]]
    ELSE LET small_buckets ==
                 allreduce_no_retain([k \in 1 .. Len(bucket) |-> Len(bucket[k].data)],
                                     numel_per_bucket)
         IN  [j \in 1 .. Len(small_buckets) |->
                [ kind |-> "all_reduce", type |-> type,
                  numel |-> SumSeq([k \in 1 .. Len(small_buckets[j]) |->
                                       Len(bucket[small_buckets[j][k]].data)]),
                  entries |-> [k \in 1 .. Len(small_buckets[j]) |->
                                  bucket[small_buckets[j][k]]] ]]

RECURSIVE OpsFrom(_, _, _)
OpsFrom(split_buckets, i, numel_per_bucket) ==
    IF i > Len(split_buckets)
    THEN <<>>
    ELSE BucketOps(split_buckets[i][1], split_buckets[i][2], numel_per_bucket)
             \o OpsFrom(split_buckets, i + 1, numel_per_bucket)

FallbackOps(r) ==
    OpsFrom(split_half_float_double_csr(GradEntries(r)), 1, rcfg.elements_per_buffer)

Signature(op) == [ kind |-> op.kind, type |-> op.type, numel |-> op.numel ]

(* The collectives pair up by position. MatchLen is the number of leading  *)
(* positions at which every rank issues a call and the calls agree.        *)
CallsAgree(ops, i) ==
    \A r, q \in Ranks :
        /\ i <= Len(ops[r])
        /\ i <= Len(ops[q])
        /\ Signature(ops[r][i]) = Signature(ops[q][i])

MatchLen(ops) ==
    CHOOSE n \in 0 .. Len(ops[0]) :
        /\ \A i \in 1 .. n : CallsAgree(ops, i)
        /\ (n < Len(ops[0]) => ~CallsAgree(ops, n + 1))

(* What the collective at position i writes back on each rank: one tensor  *)
(* per entry of the rank's operation.                                      *)
OpResult(ops, i) ==
    IF ops[0][i].kind = "all_reduce"
    THEN allreduce_and_copy(
             [r \in Ranks |->
                 [k \in 1 .. Len(ops[r][i].entries) |-> ops[r][i].entries[k].data]],
             ops[0][i].type)
    ELSE LET allreduced_csrs ==
                 csr_allreduce([r \in Ranks |-> CSRTensor(ops[r][i].entries[1].data)])
         IN  [r \in Ranks |-> <<to_dense(allreduced_csrs[r])>>]

(* param.grad of parameter p on rank r once the leading collectives that  *)
(* agree completed, results[i] being what the i-th wrote back.             *)
GradAfter(ops, results, r, p) ==
    LET places == { ik \in (1 .. Len(results)) \X (1 .. Len(params)) :
                       /\ ik[2] <= Len(ops[r][ik[1]].entries)
                       /\ ops[r][ik[1]].entries[ik[2]].slot = p }
    IN  IF places = {}
        THEN grad[r][p]
        ELSE LET ik == CHOOSE x \in places : TRUE
             IN  [ present |-> TRUE, data |-> results[ik[1]][r][ik[2]] ]

ReduceOutcome(rank_ops) ==
    \E ops \in {rank_ops} :
    \E n \in {MatchLen(ops)} :
    \E results \in {[i \in 1 .. n |-> OpResult(ops, i)]} :
        /\ grad' = [r \in Ranks |->
                       [p \in 1 .. Len(params) |-> GradAfter(ops, results, r, p)]]
        /\ calls' = [r \in Ranks |->
                        [i \in 1 .. (IF Len(ops[r]) > n THEN n + 1 ELSE n) |->
                            Signature(ops[r][i])]]
        /\ flushed' = [r \in Ranks |->
                          [i \in 1 .. (IF Len(ops[r]) > n THEN n + 1 ELSE n) |->
                              [k \in 1 .. Len(ops[r][i].entries) |->
                                  ops[r][i].entries[k].slot]]]
        /\ rphase' = IF \A r \in Ranks : Len(ops[r]) = n THEN "done" ELSE "diverged"

(***************************************************************************)
(* buffered_allreduce_fallback, called by every rank of the group.         *)
(***************************************************************************)
BufferedAllreduceFallback ==
    /\ rphase = "ready"
    /\ ReduceOutcome([r \in Ranks |-> FallbackOps(r)])
    /\ UNCHANGED <<rcfg, params, grad_in>>
    /\ UNCHANGED ctlVars
    /\ UNCHANGED <<csrVars, ckptVars, conVars, lossVars, logVars>>

(***************************************************************************)
(* allreduce_no_retain, called by every rank of the group with its list of *)
(* dense tensors of one type (the tensors are the parameters' gradients).  *)
(***************************************************************************)
NoRetainOps(r) ==
    BucketOps(params[1].dtype,
              [p \in 1 .. Len(params) |->
                  [ slot |-> p, type |-> params[p].dtype, data |-> grad[r][p].data ]],
              rcfg.elements_per_buffer)

AllreduceNoRetain ==
    /\ rphase = "ready"
    /\ ReduceOutcome([r \in Ranks |-> NoRetainOps(r)])
    /\ UNCHANGED <<rcfg, params, grad_in>>
    /\ UNCHANGED ctlVars
    /\ UNCHANGED <<csrVars, ckptVars, conVars, lossVars, logVars>>


(***************************************************************************)
(* The engines whose reduction is looked at: the default configuration,    *)
(* before any micro-step.                                                  *)
(***************************************************************************)
DefaultConfig ==
    [ gradient_accumulation_steps |-> 1,
      zero_optimization_stage |-> 0,
      zero_reduce_scatter |-> TRUE,
      fp16_enabled |-> FALSE,
      amp_enabled |-> FALSE,
      gradient_clipping |-> FALSE,
      has_lr_scheduler |-> FALSE ]

DefaultScript == [m \in 0 .. (MaxMicro - 1) |-> TRUE]

(* The local gradients: small integers, zero among them, different from    *)
(* rank to rank.                                                           *)
GradSeeds == {0, 1}

GradValue(seed, r, p, i) == Frac((((r + 1) * (p + i) + seed) % 4) - 1, 1)

(* prescale, or postscale with a predivide factor: 1, the world size, or   *)
(* another number                                                          *)
ScaleModes ==
    { m \in [ prescale_gradients : BOOLEAN,
              gradient_predivide_factor : 1 .. (NumRanks + 1) ] :
        m.prescale_gradients => m.gradient_predivide_factor = 1 }

ParamLists(maxlen, kinds) == UNION { [1 .. n -> kinds] : n \in 1 .. maxlen }

(***************************************************************************)
(* allreduce_no_retain on its own: lists of dense tensors of one element   *)
(* type, every bucket threshold, every world size.                         *)
(***************************************************************************)
DenseKinds(dtype) ==
    [ dtype : {dtype}, numel : 1 .. MaxNumel, embedding : {FALSE} ]

BucketInit ==
    \E world_size \in 1 .. NumRanks :
        /\ InitController(world_size, {DefaultConfig}, {DefaultScript})
        /\ NoGather
        /\ NoConstruction
        /\ NoLoss
        /\ NoProgress
        /\ NoCheckpoint
        /\ \E m \in ScaleModes, fp32 \in BOOLEAN, threshold \in 0 .. MaxThreshold :
               rcfg = [ prescale_gradients |-> m.prescale_gradients,
                        gradient_predivide_factor |-> m.gradient_predivide_factor,
                        allreduce_always_fp32 |-> fp32,
                        sparse_gradients_enabled |-> FALSE,
                        elements_per_buffer |-> threshold ]
        /\ \E dtype \in {HalfTensor, FloatTensor, DoubleTensor} :
               params \in ParamLists(MaxParams, DenseKinds(dtype))
        /\ \E seed \in GradSeeds :
               grad = [r \in Ranks |->
                          [p \in 1 .. Len(params) |->
                              [ present |-> TRUE,
                                data |-> [i \in 1 .. params[p].numel |->
                                             GradValue(seed, r, p, i)] ]]]
        /\ grad_in = grad
        /\ rphase = "ready"
        /\ calls = [r \in Ranks |-> <<>>]
        /\ flushed = [r \in Ranks |-> <<>>]

BucketNext == AllreduceNoRetain

BucketSpec == BucketInit /\ [][BucketNext]_vars


(***************************************************************************)
(* buffered_allreduce_fallback at a boundary: module parameters of the     *)
(* element types a module can hold, an embedding among them, with any      *)
(* per-rank pattern of parameters that got no gradient.                    *)
(***************************************************************************)
FallbackKinds ==
    [ dtype : {HalfTensor, FloatTensor, DoubleTensor, BFloat16Tensor},
      numel : {MaxNumel}, embedding : {FALSE} ]
        \cup [ dtype : {FloatTensor}, numel : {MaxNumel}, embedding : {TRUE} ]

ReduceInit ==
    /\ InitController(NumRanks, {DefaultConfig}, {DefaultScript})
    /\ NoGather
    /\ NoConstruction
    /\ NoLoss
    /\ NoProgress
    /\ NoCheckpoint
    /\ \E sparse \in BOOLEAN, bucket_size \in {1, MEMORY_OPT_ALLREDUCE_SIZE} :
           rcfg = [ prescale_gradients |-> FALSE,
                    gradient_predivide_factor |-> 1,
                    allreduce_always_fp32 |-> FALSE,
                    sparse_gradients_enabled |-> sparse,
                    elements_per_buffer |-> bucket_size ]
    /\ params \in ParamLists(MaxFallbackParams, FallbackKinds)
    /\ \E has_grad \in [Ranks -> [1 .. Len(params) -> BOOLEAN]] :
           grad = [r \in Ranks |->
                      [p \in 1 .. Len(params) |->
                          IF has_grad[r][p]
                          THEN [ present |-> TRUE,
                                 data |-> [i \in 1 .. params[p].numel |->
                                              GradValue(0, r, p, i)] ]
                          ELSE [ present |-> FALSE, data |-> <<>> ]]]
    /\ grad_in = grad
    /\ rphase = "ready"
    /\ calls = [r \in Ranks |-> <<>>]
    /\ flushed = [r \in Ranks |-> <<>>]

ReduceNext == BufferedAllreduceFallback

ReduceSpec == ReduceInit /\ [][ReduceNext]_vars


(***************************************************************************)
(* The sparse collectives on their own: every rank of the group calls      *)
(* csr_all_gather with the indices of its sparse gradient, or              *)
(* csr_allreduce with the sparse gradient; the ranks' gradients have any   *)
(* number of rows, none included, and rows may repeat.                     *)
(***************************************************************************)
SparseRows == UNION { [1 .. n -> 1 .. MaxNumel] : n \in 0 .. MaxRows }

GatherInit ==
    \E world_size \in 1 .. NumRanks :
        /\ InitController(world_size, {DefaultConfig}, {DefaultScript})
        /\ NoReduction
        /\ NoConstruction
        /\ NoLoss
        /\ NoProgress
        /\ NoCheckpoint
        /\ \E rows \in [Ranks -> SparseRows], seed \in GradSeeds :
               sparse_in = [r \in Ranks |->
                               [ indices |-> rows[r],
                                 values |-> [k \in 1 .. Len(rows[r]) |->
                                                GradValue(seed, r, rows[r][k], k)],
                                 dense_size |-> MaxNumel ]]
        /\ sparse_out = [ op |-> "none" ]

CsrAllGather ==
    /\ sparse_out.op = "none"
    /\ sparse_in # <<>>
    /\ sparse_out' = [ op |-> "csr_all_gather",
                       result |-> csr_all_gather([r \in Ranks |-> sparse_in[r].indices], 0) ]
    /\ UNCHANGED <<sparse_in, ctlVars, redVars, ckptVars, conVars, lossVars, logVars>>

CsrAllreduce ==
    /\ sparse_out.op = "none"
    /\ sparse_in # <<>>
    /\ sparse_out' = [ op |-> "csr_allreduce", result |-> csr_allreduce(sparse_in) ]
    /\ UNCHANGED <<sparse_in, ctlVars, redVars, ckptVars, conVars, lossVars, logVars>>

GatherNext == CsrAllGather \/ CsrAllreduce

GatherSpec == GatherInit /\ [][GatherNext]_vars


(***************************************************************************)
(*                          Checkpoints                                    *)
(*                                                                         *)
(* File names. A path is a string; numbers are written in decimal, the     *)
(* model-parallel rank on two digits at least.                             *)
(***************************************************************************)
save_dir == "checkpoints"

tag == "step4"

(* os.path.join of relative components *)
path_join(a, b) == a \o "/" \o b

(* '{:02d}'.format(n), n >= 0 *)
Format02d(n) == IF n < 10 THEN "0" \o ToString(n) ELSE ToString(n)

(* Mutant: the file name is the two ranks written one after the other.     *)
rank_zero_ckpt_name_Unseparated(checkpoints_path, t, mp_rank, dp_rank) ==
    path_join(path_join(checkpoints_path, t),
              "zero_pp_rank_" \o ToString(dp_rank) \o ToString(mp_rank) \o "optim_states.pt")

(* Mutant: the data-parallel rank is left out of the file name.            *)
rank_zero_ckpt_name_NoDpRank(checkpoints_path, t, mp_rank, dp_rank) ==
    path_join(path_join(checkpoints_path, t),
              "zero_pp_rank_" \o "_mp_rank_" \o Format02d(mp_rank) \o "optim_states.pt")

get_rank_zero_ckpt_name(checkpoints_path, t, mp_rank, dp_rank) ==
    path_join(path_join(checkpoints_path, t),
              "zero_pp_rank_" \o ToString(dp_rank)
                  \o "_mp_rank_" \o Format02d(mp_rank) \o "optim_states.pt")

get_ckpt_name(checkpoints_path, t, mp_rank) ==
    path_join(path_join(checkpoints_path, t),
              "mp_rank_" \o Format02d(mp_rank) \o "_model_states.pt")

(* os.path.dirname of a checkpoint file name *)
checkpoint_dirname(checkpoints_path, t) == path_join(checkpoints_path, t)

(***************************************************************************)
(* The names on their own: the model-state and optimizer-shard names of    *)
(* two ranks, for one directory and tag.                                   *)
(***************************************************************************)
RankIds == [ mp_rank : 0 .. MaxNameRank, dp_rank : 0 .. MaxNameRank ]

NameInit ==
    /\ InitController(1, {DefaultConfig}, {DefaultScript})
    /\ NoReduction
    /\ NoGather
    /\ NoConstruction
    /\ NoLoss
    /\ NoProgress
    /\ \E a, b \in RankIds : names = [ made |-> FALSE, a |-> a, b |-> b ]
    /\ mp_world_size = 1
    /\ client_state = <<>>
    /\ dirs = {}
    /\ files = <<>>
    /\ save = <<>>
    /\ write_log = <<>>
    /\ loader = [ none |-> TRUE ]
    /\ load_result = [ made |-> FALSE ]

GetCkptNames ==
    /\ ~names.made
    /\ "a" \in DOMAIN names
    /\ names' = [ made |-> TRUE, a |-> names.a, b |-> names.b,
                  zero_a |-> get_rank_zero_ckpt_name(save_dir, tag,
                                                     names.a.mp_rank, names.a.dp_rank),
                  zero_b |-> get_rank_zero_ckpt_name(save_dir, tag,
                                                     names.b.mp_rank, names.b.dp_rank),
                  model_a |-> get_ckpt_name(save_dir, tag, names.a.mp_rank),
                  model_b |-> get_ckpt_name(save_dir, tag, names.b.mp_rank) ]
    /\ UNCHANGED <<mp_world_size, client_state, dirs, files, save, write_log, loader, load_result>>
    /\ UNCHANGED <<ctlVars, redVars, csrVars, conVars, lossVars, logVars>>

NameNext == GetCkptNames

NameSpec == NameInit /\ [][NameNext]_vars


(***************************************************************************)
(* save_checkpoint, called by every rank of a job of mp_world_size *       *)
(* dp_world_size ranks. Without an mpu mp_world_size is 1 and the          *)
(* data-parallel rank is the global rank; with one, consecutive global     *)
(* ranks make a model-parallel group.                                      *)
(***************************************************************************)
world_size == mp_world_size * dp_world_size

GlobalRanks == 0 .. (world_size - 1)

get_model_parallel_rank(g) == g % mp_world_size

get_data_parallel_rank(g) == g \div mp_world_size

(* the rank in optimizer.dp_process_group, the data-parallel group *)
pp_rank(g) == get_data_parallel_rank(g)

(* Mutant: every rank stores the model checkpoint.                         *)
save_non_zero_checkpoint_EveryRank(g) == g \in GlobalRanks

(* Whether the launcher has set args.local_rank to the device index and   *)
(* whether an mpu is given; where the constructor's arguments are not      *)
(* followed, the job is launched with local ranks, and with an mpu when    *)
(* there is model parallelism.                                             *)
local_rank_set ==
    IF "local_rank_set" \in DOMAIN init_args THEN init_args.local_rank_set ELSE TRUE

mpu_given ==
    IF "mpu" \in DOMAIN init_args THEN init_args.mpu ELSE mp_world_size > 1

(* self.world_size and self.global_rank, set by _init_distributed *)
engine_world_size == IF local_rank_set THEN world_size ELSE 1

engine_global_rank(g) == IF local_rank_set THEN g ELSE 0

(* dp_rank of _configure_checkpointing *)
checkpointing_dp_rank(g) ==
    IF mpu_given THEN get_data_parallel_rank(g) ELSE engine_global_rank(g)

(* _configure_checkpointing *)
save_non_zero_checkpoint(g) == checkpointing_dp_rank(g) = 0

save_zero_checkpoint(g) == zero_optimization /\ pp_rank(g) = checkpointing_dp_rank(g)

(* What the state dictionaries hold, as far as the engine's counters tell: *)
(* the weights and the optimizer state after the updates applied so far,   *)
(* the scheduler after its steps.                                          *)
module_state_dict(e) == [ updates |-> e.global_steps - e.skipped_steps ]

optimizer_state_dict(e) == [ step |-> e.global_steps - e.skipped_steps ]

lr_scheduler_state_dict(e) == [ last_step |-> e.lr_steps ]

(* The names of the module's Embedding layers, with sparse gradients on.   *)
csr_tensor_module_names == {"embedding.weight"}

(* An engine after four micro-steps of one-step cycles, one of them        *)
(* skipped on overflow.                                                    *)
TrainedState ==
    [NewEngine EXCEPT !.global_steps = 4, !.micro_steps = 4, !.skipped_steps = 1,
                      !.opt_steps = 4, !.zero_grads = 4,
                      !.lr_steps = IF config.has_lr_scheduler THEN 3 ELSE 0]

(* Mutant: the world sizes are not among the engine's keys.                *)
deepspeed_states_WithoutWorldSizes ==
    { "module", "optimizer", "lr_scheduler", "csr_tensor_module_names",
      "skipped_steps", "global_steps" }

(* The keys of a model-state file that are the engine's. *)
deepspeed_states ==
    { "module", "optimizer", "lr_scheduler", "csr_tensor_module_names",
      "skipped_steps", "global_steps", "dp_world_size", "mp_world_size" }

(* The client_state arguments considered: none, keys of the client's own,  *)
(* and keys that are also the engine's.                                    *)
ClientStates ==
    { <<>>,
      [ epoch |-> 7 ],
      [ epoch |-> 7, global_steps |-> 9 ],
      [ module |-> [ updates |-> 9 ], skipped_steps |-> 0 ] }

(* The state dictionary _save_checkpoint writes for an engine with the     *)
(* counters e: the engine's entries, then state.update(client_state).      *)
ModelStates(e, dp_ws, mp_ws) ==
    client_state @@
    [ module |-> module_state_dict(e),
      optimizer |-> IF ~zero_optimization THEN optimizer_state_dict(e) ELSE "None",
      lr_scheduler |-> IF config.has_lr_scheduler
                       THEN lr_scheduler_state_dict(e) ELSE "None",
      csr_tensor_module_names |-> csr_tensor_module_names,
      skipped_steps |-> e.skipped_steps,
      global_steps |-> e.global_steps,
      dp_world_size |-> dp_ws,
      mp_world_size |-> mp_ws ]

(* The state dictionary _save_zero_checkpoint writes: the optimizer shard  *)
(* of one (model-parallel rank, data-parallel rank) pair.                  *)
ZeroStates(mp_rank, dp_rank) ==
    [ optimizer_state_dict |-> [ mp_rank |-> mp_rank, dp_rank |-> dp_rank ] ]

(* The number of _create_checkpoint_file calls a rank's save makes. *)
CreationsToMake(g) ==
    (IF save_non_zero_checkpoint(g) THEN 1 ELSE 0)
        + (IF save_zero_checkpoint(g) THEN 1 ELSE 0)

CreationDone(g) == save[g].created = CreationsToMake(g)

(* Iteration i of the loop of _create_zero_checkpoint_files on rank g: the *)
(* rank creates the directory when it is its turn, and enters the barrier. *)
ZeroLoop(sv, i, g) ==
    IF i = engine_world_size
    THEN [sv EXCEPT !.pc = "save_zero_checkpoint", !.rank = i]
    ELSE IF i = engine_global_rank(g)
    THEN [sv EXCEPT !.pc = "create_zero_checkpoint_file", !.rank = i]
    ELSE [sv EXCEPT !.pc = "barrier", !.rank = i, !.barriers = @ + 1]

(* After the model checkpoint, or from the start on a rank that stores     *)
(* none.                                                                   *)
AfterNonZero(sv, g) ==
    IF save_zero_checkpoint(g) THEN ZeroLoop(sv, 0, g) ELSE [sv EXCEPT !.pc = "done"]

SaveEntry(g) ==
    LET sv == [ pc |-> "create_checkpoint_file", rank |-> 0, barriers |-> 0,
                created |-> 0, create_failed |-> FALSE ]
    IN  IF save_non_zero_checkpoint(g) THEN sv ELSE AfterNonZero(sv, g)

(* _ensure_directory_exists, first half: os.path.exists(dirname) *)
EnsureDirectoryExists(g) ==
    /\ save[g].pc \in {"create_checkpoint_file", "create_zero_checkpoint_file"}
    /\ LET zero_checkpoint == save[g].pc = "create_zero_checkpoint_file"
           created == [save[g] EXCEPT !.created = @ + 1]
       IN  save' = [save EXCEPT ![g] =
                       IF checkpoint_dirname(save_dir, tag) \in dirs
                       THEN IF zero_checkpoint
                            THEN [created EXCEPT !.pc = "barrier", !.barriers = @ + 1]
                            ELSE [created EXCEPT !.pc = "save_checkpoint"]
                       ELSE [save[g] EXCEPT !.pc = IF zero_checkpoint
                                                   THEN "zero_makedirs"
                                                   ELSE "makedirs"]]
    /\ UNCHANGED <<names, mp_world_size, client_state, dirs, files, write_log, loader, load_result>>
    /\ UNCHANGED <<ctlVars, redVars, csrVars, conVars, lossVars, logVars>>

(* _ensure_directory_exists, second half: os.makedirs(dirname), which      *)
(* raises when the directory exists by now; _create_checkpoint_file        *)
(* catches the exception and returns False.                                *)
Makedirs(g) ==
    /\ save[g].pc \in {"makedirs", "zero_makedirs"}
    /\ LET exists == checkpoint_dirname(save_dir, tag) \in dirs
           created == [save[g] EXCEPT !.created = @ + 1,
                                      !.create_failed = @ \/ exists]
       IN  /\ dirs' = dirs \cup {save_dir, checkpoint_dirname(save_dir, tag)}
           /\ save' = [save EXCEPT ![g] =
                          IF save[g].pc = "zero_makedirs"
                          THEN [created EXCEPT !.pc = "barrier", !.barriers = @ + 1]
                          ELSE [created EXCEPT !.pc = "save_checkpoint"]]
    /\ UNCHANGED <<names, mp_world_size, client_state, files, write_log, loader, load_result>>
    /\ UNCHANGED <<ctlVars, redVars, csrVars, conVars, lossVars, logVars>>

(* torch.save by rank g, which then goes on as `after`: the file is       *)
(* written when its directory exists, otherwise torch.save raises.         *)
TorchSave(g, kind, path, content, after) ==
    IF checkpoint_dirname(save_dir, tag) \in dirs
    THEN /\ files' = (path :> content) @@ files
         /\ write_log' = Append(write_log,
                                [ rank |-> g, kind |-> kind, path |-> path,
                                  engine |-> engine[get_data_parallel_rank(g)],
                                  all_created |-> \A q \in GlobalRanks : CreationDone(q) ])
         /\ save' = [save EXCEPT ![g] = after]
    ELSE /\ save' = [save EXCEPT ![g].pc = "raised"]
         /\ UNCHANGED <<files, write_log>>

(* _save_checkpoint *)
SaveCheckpointFile(g) ==
    /\ save[g].pc = "save_checkpoint"
    /\ TorchSave(g, "model_states",
                 get_ckpt_name(save_dir, tag, get_model_parallel_rank(g)),
                 ModelStates(engine[get_data_parallel_rank(g)],
                             dp_world_size, mp_world_size),
                 AfterNonZero(save[g], g))
    /\ UNCHANGED <<names, mp_world_size, client_state, dirs, loader, load_result>>
    /\ UNCHANGED <<ctlVars, redVars, csrVars, conVars, lossVars, logVars>>

(* Mutant: dist.barrier() returns without waiting for the other ranks.     *)
BarrierReturn_NoWait(g) ==
    /\ save[g].pc = "barrier"
    /\ save' = [save EXCEPT ![g] = ZeroLoop(save[g], save[g].rank + 1, g)]
    /\ UNCHANGED <<names, mp_world_size, client_state, dirs, files, write_log, loader, load_result>>
    /\ UNCHANGED <<ctlVars, redVars, csrVars, conVars, lossVars, logVars>>

(* dist.barrier() returns once every rank has entered it. *)
BarrierReturn(g) ==
    /\ save[g].pc = "barrier"
    /\ \A q \in GlobalRanks : save[q].barriers >= save[g].barriers
    /\ save' = [save EXCEPT ![g] = ZeroLoop(save[g], save[g].rank + 1, g)]
    /\ UNCHANGED <<names, mp_world_size, client_state, dirs, files, write_log, loader, load_result>>
    /\ UNCHANGED <<ctlVars, redVars, csrVars, conVars, lossVars, logVars>>

(* _save_zero_checkpoint, and save_checkpoint returns *)
SaveZeroCheckpoint(g) ==
    /\ save[g].pc = "save_zero_checkpoint"
    /\ TorchSave(g, "optim_states",
                 get_rank_zero_ckpt_name(save_dir, tag,
                                         get_model_parallel_rank(g), pp_rank(g)),
                 ZeroStates(get_model_parallel_rank(g), pp_rank(g)),
                 [save[g] EXCEPT !.pc = "done"])
    /\ UNCHANGED <<names, mp_world_size, client_state, dirs, loader, load_result>>
    /\ UNCHANGED <<ctlVars, redVars, csrVars, conVars, lossVars, logVars>>

(***************************************************************************)
(* load_checkpoint, called by one rank. loader holds the rank and what a   *)
(* load replaces; 0 stands for None in the loaded world sizes, "None" in   *)
(* a path.                                                                 *)
(***************************************************************************)
LoaderOf(g, e, names_of_module) ==
    [ rank |-> g,
      module |-> module_state_dict(e),
      optimizer |-> optimizer_state_dict(e),
      lr_scheduler |-> lr_scheduler_state_dict(e),
      csr_tensor_module_names |-> names_of_module,
      global_steps |-> e.global_steps,
      skipped_steps |-> e.skipped_steps,
      micro_steps |-> e.micro_steps,
      loaded_checkpoint_mp_world_size |-> 0,
      loaded_checkpoint_dp_world_size |-> 0 ]

(* A freshly constructed engine, of a module without sparse gradients. *)
NewLoader(g) == LoaderOf(g, NewEngine, {})

(* An engine that has trained since it was constructed: two steps applied. *)
RunningEngine ==
    [NewEngine EXCEPT !.global_steps = 2, !.micro_steps = 2,
                      !.opt_steps = 2, !.zero_grads = 2,
                      !.lr_steps = IF config.has_lr_scheduler THEN 2 ELSE 0]

RunningLoader(g) == LoaderOf(g, RunningEngine, {})

(* optimizer.load_state_dict: the optimizer takes the state it is given,   *)
(* unless told not to load the optimizer states.                           *)
OptimizerLoadStateDict(ld, state, load_optimizer_states) ==
    IF load_optimizer_states THEN [ld EXCEPT !.optimizer = state] ELSE ld

(* Mutant: a missing model-state file resets the counters.                 *)
NotFound_CountersReset(ld) ==
    [ load_path |-> "None", client_state |-> "None",
      loader |-> [ld EXCEPT !.global_steps = 0, !.skipped_steps = 0],
      optimizer_loads |-> <<>> ]

(* _load_checkpoint when the model-state file does not exist: None, None   *)
NotFound(ld) ==
    [ load_path |-> "None", client_state |-> "None", loader |-> ld,
      optimizer_loads |-> <<>> ]

(* Mutant: skipped_steps is left as it was.                                *)
load_checkpoint_file_SkippedStepsKept(ld, load_optimizer_states, load_lr_scheduler_states) ==
    LET load_path == get_ckpt_name(save_dir, tag, get_model_parallel_rank(ld.rank))
    IN  IF load_path \notin DOMAIN files
        THEN NotFound(ld)
        ELSE LET checkpoint == files[load_path]
             IN  [ load_path |-> load_path,
                   client_state |->
                       [key \in DOMAIN checkpoint \ deepspeed_states |-> checkpoint[key]],
                   loader |->
                       [ld EXCEPT
                           !.module = checkpoint.module,
                           !.csr_tensor_module_names = checkpoint.csr_tensor_module_names,
                           !.global_steps = checkpoint.global_steps,
                           !.loaded_checkpoint_mp_world_size = checkpoint.mp_world_size,
                           !.loaded_checkpoint_dp_world_size = checkpoint.dp_world_size],
                   optimizer_loads |-> <<>> ]

(* Mutant: the load also sets micro_steps, to the micro-steps that the     *)
(* restored global_steps stand for.                                        *)
load_checkpoint_file_MicroStepsRestored(ld, load_optimizer_states, load_lr_scheduler_states) ==
    LET load_path == get_ckpt_name(save_dir, tag, get_model_parallel_rank(ld.rank))
    IN  IF load_path \notin DOMAIN files
        THEN NotFound(ld)
        ELSE LET checkpoint == files[load_path]
                 with_module == [ld EXCEPT !.module = checkpoint.module]
                 with_optimizer ==
                     IF ~zero_optimization
                     THEN OptimizerLoadStateDict(with_module, checkpoint.optimizer,
                                                 IF fp16_enabled
                                                 THEN load_optimizer_states ELSE TRUE)
                     ELSE with_module
                 with_scheduler ==
                     IF load_lr_scheduler_states /\ config.has_lr_scheduler
                     THEN [with_optimizer EXCEPT !.lr_scheduler = checkpoint.lr_scheduler]
                     ELSE with_optimizer
             IN  [ load_path |-> load_path,
                   client_state |->
                       [key \in DOMAIN checkpoint \ deepspeed_states |-> checkpoint[key]],
                   loader |->
                       [with_scheduler EXCEPT
                           !.csr_tensor_module_names = checkpoint.csr_tensor_module_names,
                           !.global_steps = checkpoint.global_steps,
                           !.skipped_steps = checkpoint.skipped_steps,
                           !.micro_steps = checkpoint.global_steps
                                               * gradient_accumulation_steps,
                           !.loaded_checkpoint_mp_world_size = checkpoint.mp_world_size,
                           !.loaded_checkpoint_dp_world_size = checkpoint.dp_world_size],
                   optimizer_loads |->
                       IF ~zero_optimization
                       THEN << [ state_dict |-> checkpoint.optimizer ] >>
                       ELSE <<>> ]

(* _load_checkpoint: the path and client state returned, the engine after, *)
(* and the optimizer.load_state_dict calls made.                           *)
load_checkpoint_file(ld, load_optimizer_states, load_lr_scheduler_states) ==
    LET load_path == get_ckpt_name(save_dir, tag, get_model_parallel_rank(ld.rank))
    IN  IF load_path \notin DOMAIN files
        THEN NotFound(ld)
        ELSE LET checkpoint == files[load_path]
                 with_module == [ld EXCEPT !.module = checkpoint.module]
                 with_optimizer ==
                     IF ~zero_optimization
                     THEN OptimizerLoadStateDict(with_module, checkpoint.optimizer,
                                                 IF fp16_enabled
                                                 THEN load_optimizer_states ELSE TRUE)
                     ELSE with_module
                 with_scheduler ==
                     IF load_lr_scheduler_states /\ config.has_lr_scheduler
                     THEN [with_optimizer EXCEPT !.lr_scheduler = checkpoint.lr_scheduler]
                     ELSE with_optimizer
             IN  [ load_path |-> load_path,
                   client_state |->
                       [key \in DOMAIN checkpoint \ deepspeed_states |-> checkpoint[key]],
                   loader |->
                       [with_scheduler EXCEPT
                           !.csr_tensor_module_names = checkpoint.csr_tensor_module_names,
                           !.global_steps = checkpoint.global_steps,
                           !.skipped_steps = checkpoint.skipped_steps,
                           !.loaded_checkpoint_mp_world_size = checkpoint.mp_world_size,
                           !.loaded_checkpoint_dp_world_size = checkpoint.dp_world_size],
                   optimizer_loads |->
                       IF ~zero_optimization
                       THEN << [ state_dict |-> checkpoint.optimizer ] >>
                       ELSE <<>> ]

(* Mutant: the names are those of the current data-parallel group.         *)
get_mp_rank_zero_checkpoint_names_CurrentDegree(mp_rank, dp_ws) ==
    [k \in 1 .. dp_world_size |-> get_rank_zero_ckpt_name(save_dir, tag, mp_rank, k - 1)]

(* _get_mp_rank_zero_checkpoint_names *)
get_mp_rank_zero_checkpoint_names(mp_rank, dp_ws) ==
    [k \in 1 .. dp_ws |-> get_rank_zero_ckpt_name(save_dir, tag, mp_rank, k - 1)]

(* Mutant: the shard files that exist are loaded, the others left out.     *)
get_all_zero_checkpoints_LoadsPresent(ld) ==
    LET zero_ckpt_names ==
            get_mp_rank_zero_checkpoint_names(get_model_parallel_rank(ld.rank),
                                              ld.loaded_checkpoint_dp_world_size)
        present == SelectSeq(zero_ckpt_names, LAMBDA n : n \in DOMAIN files)
    IN  [ none |-> FALSE, zero_ckpt_names |-> zero_ckpt_names,
          invalid_zero_ckpt_paths |->
              SelectSeq(zero_ckpt_names, LAMBDA n : n \notin DOMAIN files),
          zero_optimizer_sd |->
              [k \in 1 .. Len(present) |-> files[present[k]].optimizer_state_dict] ]

(* _get_all_zero_checkpoints: None when a file is missing, else the shard  *)
(* states in the order of the names.                                       *)
get_all_zero_checkpoints(ld) ==
    LET zero_ckpt_names ==
            get_mp_rank_zero_checkpoint_names(get_model_parallel_rank(ld.rank),
                                              ld.loaded_checkpoint_dp_world_size)
        invalid_zero_ckpt_paths ==
            SelectSeq(zero_ckpt_names, LAMBDA n : n \notin DOMAIN files)
    IN  IF Len(invalid_zero_ckpt_paths) > 0
        THEN [ none |-> TRUE, zero_ckpt_names |-> zero_ckpt_names,
               invalid_zero_ckpt_paths |-> invalid_zero_ckpt_paths,
               zero_optimizer_sd |-> <<>> ]
        ELSE [ none |-> FALSE, zero_ckpt_names |-> zero_ckpt_names,
               invalid_zero_ckpt_paths |-> <<>>,
               zero_optimizer_sd |->
                   [k \in 1 .. Len(zero_ckpt_names) |->
                       files[zero_ckpt_names[k]].optimizer_state_dict] ]

(* load_checkpoint *)
LoadCheckpoint ==
    /\ ~load_result.made
    /\ "rank" \in DOMAIN loader
    /\ \A g \in DOMAIN save : save[g].pc = "done"
    /\ \E load_optimizer_states, load_lr_scheduler_states \in BOOLEAN :
       \E loaded \in {load_checkpoint_file(loader, load_optimizer_states,
                                           load_lr_scheduler_states)} :
           IF zero_optimization /\ loaded.load_path # "None"
           THEN \E zero_sd_list \in {get_all_zero_checkpoints(loaded.loader)} :
                    /\ loader' =
                           IF zero_sd_list.none
                           THEN loaded.loader
                           ELSE OptimizerLoadStateDict(loaded.loader,
                                                       zero_sd_list.zero_optimizer_sd,
                                                       load_optimizer_states)
                    /\ load_result' =
                           [ made |-> TRUE,
                             load_path |-> loaded.load_path,
                             client_state |-> loaded.client_state,
                             load_optimizer_states |-> load_optimizer_states,
                             load_lr_scheduler_states |-> load_lr_scheduler_states,
                             before |-> loader,
                             zero_load_attempted |-> TRUE,
                             zero_ckpt_names |-> zero_sd_list.zero_ckpt_names,
                             invalid_zero_ckpt_paths |-> zero_sd_list.invalid_zero_ckpt_paths,
                             optimizer_loads |->
                                 loaded.optimizer_loads \o
                                     (IF zero_sd_list.none
                                      THEN <<>>
                                      ELSE << [ state_dict |->
                                                    zero_sd_list.zero_optimizer_sd ] >>) ]
           ELSE /\ loader' = loaded.loader
                /\ load_result' =
                       [ made |-> TRUE,
                         load_path |-> loaded.load_path,
                         client_state |-> loaded.client_state,
                         load_optimizer_states |-> load_optimizer_states,
                         load_lr_scheduler_states |-> load_lr_scheduler_states,
                         before |-> loader,
                         zero_load_attempted |-> FALSE,
                         zero_ckpt_names |-> <<>>,
                         invalid_zero_ckpt_paths |-> <<>>,
                         optimizer_loads |-> loaded.optimizer_loads ]
    /\ UNCHANGED <<names, mp_world_size, client_state, dirs, files, save, write_log>>
    /\ UNCHANGED <<ctlVars, redVars, csrVars, conVars, lossVars, logVars>>


(***************************************************************************)
(* The configurations checkpoints are taken with: fp16, every partitioning *)
(* stage, with and without a scheduler.                                    *)
(***************************************************************************)
CheckpointConfigs ==
    { c \in Configs :
        /\ c.gradient_accumulation_steps = 1
        /\ c.fp16_enabled
        /\ ~c.gradient_clipping }

(* <<model-parallel degree, data-parallel degree>> *)
Topologies ==
    { t \in (1 .. MaxMP) \X (1 .. NumRanks) : t[1] * t[2] <= MaxWorld }

(* The directories there may be before the first save. *)
InitialDirs == { {}, {save_dir, checkpoint_dirname(save_dir, tag)} }

(***************************************************************************)
(* Every rank of the job calls save_checkpoint with the same directory and *)
(* tag; once all have returned, one rank of a job of the same topology     *)
(* calls load_checkpoint.                                                  *)
(***************************************************************************)
SaveInit ==
    \E t \in Topologies :
        /\ InitControllerFrom(t[2], {c \in CheckpointConfigs : c.has_lr_scheduler},
                              {DefaultScript}, TrainedState)
        /\ NoReduction
        /\ NoGather
        /\ NoConstruction
        /\ NoLoss
        /\ NoProgress
        /\ names = [ made |-> FALSE ]
        /\ mp_world_size = t[1]
        /\ client_state \in ClientStates
        /\ dirs \in InitialDirs
        /\ files = <<>>
        /\ save = [g \in GlobalRanks |-> SaveEntry(g)]
        /\ write_log = <<>>
        /\ loader = [ none |-> TRUE ]
        /\ load_result = [ made |-> FALSE ]

(* The job is started again with the same topology: a rank constructs its  *)
(* engine.                                                                 *)
Restart(g) ==
    /\ "none" \in DOMAIN loader
    /\ \A q \in GlobalRanks : save[q].pc = "done"
    /\ loader' = NewLoader(g)
    /\ UNCHANGED <<names, mp_world_size, client_state, dirs, files, save, write_log, load_result>>
    /\ UNCHANGED <<ctlVars, redVars, csrVars, conVars, lossVars, logVars>>

SaveNext ==
    \/ \E g \in GlobalRanks : EnsureDirectoryExists(g)
    \/ \E g \in GlobalRanks : Makedirs(g)
    \/ \E g \in GlobalRanks : SaveCheckpointFile(g)
    \/ \E g \in GlobalRanks : BarrierReturn(g)
    \/ \E g \in GlobalRanks : SaveZeroCheckpoint(g)
    \/ \E g \in GlobalRanks : Restart(g)
    \/ LoadCheckpoint

SaveSpec == SaveInit /\ [][SaveNext]_vars

(***************************************************************************)
(* load_checkpoint on what is left of a checkpoint saved at some topology: *)
(* any of the files of the loading rank's model-parallel rank may be       *)
(* missing.                                                                *)
(***************************************************************************)
SavedFiles(mp_rank, dp_ws, mp_ws) ==
    { [ path |-> get_ckpt_name(save_dir, tag, mp_rank),
        content |-> ModelStates(engine[0], dp_ws, mp_ws) ] }
        \cup IF zero_optimization
             THEN { [ path |-> get_rank_zero_ckpt_name(save_dir, tag, mp_rank, dp_rank),
                      content |-> ZeroStates(mp_rank, dp_rank) ] :
                    dp_rank \in 0 .. (dp_ws - 1) }
             ELSE {}

FileSystem(kept) ==
    [p \in {f.path : f \in kept} |-> (CHOOSE f \in kept : f.path = p).content]

LoadInit ==
    \E t \in Topologies :
        /\ InitControllerFrom(t[2], CheckpointConfigs, {DefaultScript}, TrainedState)
        /\ NoReduction
        /\ NoGather
        /\ NoConstruction
        /\ NoLoss
        /\ NoProgress
        /\ names = [ made |-> FALSE ]
        /\ mp_world_size = t[1]
        /\ client_state \in ClientStates
        /\ dirs = {save_dir, checkpoint_dirname(save_dir, tag)}
        /\ \E g \in GlobalRanks :
               /\ loader \in {NewLoader(g), RunningLoader(g)}
               /\ \E saved_dp_world_size \in 1 .. NumRanks :
                  \E kept \in SUBSET SavedFiles(get_model_parallel_rank(g),
                                                saved_dp_world_size, mp_world_size) :
                      files = FileSystem(kept)
        /\ save = <<>>
        /\ write_log = <<>>
        /\ load_result = [ made |-> FALSE ]

LoadNext == LoadCheckpoint

LoadSpec == LoadInit /\ [][LoadNext]_vars


(***************************************************************************)
(* One engine trains, calls save_checkpoint at some point between two      *)
(* micro-steps, may train on, and then itself or a freshly constructed     *)
(* engine calls load_checkpoint with the same directory and tag.           *)
(***************************************************************************)
RoundTripConfigs ==
    { c \in Configs :
        /\ c.has_lr_scheduler
        /\ ~c.gradient_clipping
        /\ ~c.amp_enabled
        /\ c.zero_optimization_stage <= ZERO_OPTIMIZATION_OPTIMIZER_STATES }

RoundTripInit == InitEngines(1, RoundTripConfigs, {DefaultScript})

(* No checkpoint call is under way on the engine. *)
BetweenCalls ==
    /\ "none" \in DOMAIN loader
    /\ \A g \in DOMAIN save : save[g].pc = "done"

Train(r) ==
    /\ BetweenCalls
    /\ \/ Forward(r)
       \/ Backward(r)
       \/ ReduceReturn(r)
       \/ Step(r)
       \/ StepReturn(r)

(* save_checkpoint(save_dir, tag, client_state) is called. *)
SaveCheckpoint ==
    /\ DOMAIN save = {}
    /\ \A r \in Ranks : pc[r] = "idle"
    /\ client_state' \in ClientStates
    /\ save' = [g \in GlobalRanks |-> SaveEntry(g)]
    /\ UNCHANGED <<names, mp_world_size, dirs, files, write_log, loader, load_result>>
    /\ UNCHANGED <<ctlVars, redVars, csrVars, conVars, lossVars, logVars>>

(* The engine that saved is the one that loads. *)
Resume(g) ==
    /\ BetweenCalls
    /\ pc[get_data_parallel_rank(g)] = "idle"
    /\ loader' = LoaderOf(g, engine[get_data_parallel_rank(g)], csr_tensor_module_names)
    /\ UNCHANGED <<names, mp_world_size, client_state, dirs, files, save, write_log,
                   load_result>>
    /\ UNCHANGED <<ctlVars, redVars, csrVars, conVars, lossVars, logVars>>

RoundTripNext ==
    \/ \E r \in Ranks : Train(r)
    \/ SaveCheckpoint
    \/ \E g \in DOMAIN save : EnsureDirectoryExists(g)
    \/ \E g \in DOMAIN save : Makedirs(g)
    \/ \E g \in DOMAIN save : SaveCheckpointFile(g)
    \/ \E g \in DOMAIN save : BarrierReturn(g)
    \/ \E g \in DOMAIN save : SaveZeroCheckpoint(g)
    \/ \E g \in DOMAIN save : Restart(g)
    \/ \E g \in DOMAIN save : Resume(g)
    \/ LoadCheckpoint

RoundTripSpec == RoundTripInit /\ [][RoundTripNext]_vars


(***************************************************************************)
(* DeepSpeedLight.__init__ on every process of the job: the checks that    *)
(* reject the arguments or the configuration, the topology attributes, the *)
(* broadcast of the module's parameters and the optimizer built. Training  *)
(* starts on a rank once its constructor has returned.                     *)
(***************************************************************************)

(* The configurations a configuration file can hold, accepted or not. *)
AnyConfigs ==
    [ gradient_accumulation_steps : 1 .. MaxK,
      zero_optimization_stage : 0 .. 2,
      zero_reduce_scatter : BOOLEAN,
      fp16_enabled : BOOLEAN,
      amp_enabled : BOOLEAN,
      gradient_clipping : {FALSE},
      has_lr_scheduler : {TRUE} ]

(* The arguments: whether an mpu, an optimizer and model parameters are    *)
(* given, and whether the launcher has set args.local_rank to the device   *)
(* index (otherwise it holds the script's default, -1).                    *)
InitArgs ==
    [ mpu : BOOLEAN,
      local_rank_set : BOOLEAN,
      optimizer : BOOLEAN,
      model_parameters : BOOLEAN ]

(* args.local_rank on global rank g *)
local_rank(g) == IF init_args.local_rank_set THEN g ELSE -1

(* The attributes of the engine under construction on global rank g; the   *)
(* module as the process built it, its weights different on every rank.    *)
NewConstruction(g) ==
    [ pc |-> "start",
      world_size |-> -1,
      global_rank |-> -1,
      dp_world_size |-> -1,
      mp_world_size |-> -1,
      data_parallel_group |-> {},
      broadcast_src_rank |-> -1,
      module |-> [ weights |-> g, dtype |-> "float", amp |-> FALSE ],
      broadcasts |-> 0,
      optimizer |-> "None",
      resume |-> "none" ]

(* _do_sanity_check: without a client optimizer, model parameters are      *)
(* required. FALSE where the assertion fails.                              *)
do_sanity_check == init_args.optimizer \/ init_args.model_parameters

(* _init_distributed on global rank g of an initialised process group *)
init_distributed(g) ==
    IF local_rank(g) >= 0
    THEN [ world_size |-> world_size, global_rank |-> g ]
    ELSE [ world_size |-> 1, global_rank |-> 0 ]

(* mpu.get_data_parallel_group(): the ranks of g's model-parallel rank *)
mpu_data_parallel_group(g) ==
    { h \in GlobalRanks : get_model_parallel_rank(h) = get_model_parallel_rank(g) }

(* _get_global_rank(group, 0): the first rank of the group *)
get_global_rank_zero(group) == CHOOSE h \in group : \A q \in group : h <= q

(* parameter_parallel_size=None, the default *)
DefaultSize == 0

(* Mutant: the size is not compared with the world size; the groups are    *)
(* made of the ranks there are.                                            *)
initialize_parameter_parallel_groups_Unchecked(rank, parameter_parallel_size) ==
    LET size == IF parameter_parallel_size = DefaultSize
                THEN world_size ELSE parameter_parallel_size
    IN  [ raised |-> FALSE,
          new_groups |-> world_size \div size,
          my_group |-> { h \in GlobalRanks : h \div size = rank \div size } ]

(* _initialize_parameter_parallel_groups on a rank of the process group:   *)
(* whether the assertion fails, the number of new_group calls, the group   *)
(* returned.                                                               *)
initialize_parameter_parallel_groups(rank, parameter_parallel_size) ==
    LET size == IF parameter_parallel_size = DefaultSize
                THEN world_size ELSE parameter_parallel_size
        made == { i \in 0 .. ((world_size \div size) - 1) :
                     rank \in (i * size) .. ((i + 1) * size - 1) }
    IN  IF world_size % size # 0
        THEN [ raised |-> TRUE, new_groups |-> 0, my_group |-> {} ]
        ELSE [ raised |-> FALSE,
               new_groups |-> world_size \div size,
               my_group |-> UNION { (i * size) .. ((i + 1) * size - 1) : i \in made } ]

(* _configure_distributed_model: the topology attributes, from the process *)
(* group when there is no mpu, else from the mpu.                          *)
configure_distributed_model(g) ==
    IF ~init_args.mpu
    THEN [ data_parallel_group |->
               initialize_parameter_parallel_groups(g, DefaultSize).my_group,
           dp_world_size |-> world_size,
           mp_world_size |-> 1,
           broadcast_src_rank |-> 0 ]
    ELSE [ data_parallel_group |-> mpu_data_parallel_group(g),
           dp_world_size |-> dp_world_size,
           mp_world_size |-> mp_world_size,
           broadcast_src_rank |-> get_global_rank_zero(mpu_data_parallel_group(g)) ]

(* Mutant: stage 2 is built whatever the accumulation steps.               *)
configure_zero_optimizer_AnyAccumulation(c) ==
    IF c.zero_optimization_stage = ZERO_OPTIMIZATION_OPTIMIZER_STATES
    THEN IF c.zero_reduce_scatter
         THEN [ raised |-> FALSE, optimizer |-> "FP16_DeepSpeedZeroOptimizer_Stage1" ]
         ELSE [ raised |-> TRUE, optimizer |-> "None" ]
    ELSE IF c.zero_optimization_stage = ZERO_OPTIMIZATION_GRADIENTS
    THEN [ raised |-> FALSE, optimizer |-> "FP16_DeepSpeedZeroOptimizer" ]
    ELSE [ raised |-> TRUE, optimizer |-> "None" ]

(* Mutant: stage 1 is built whatever the reduce-scatter option.            *)
configure_zero_optimizer_AnyReduceMode(c) ==
    IF c.zero_optimization_stage = ZERO_OPTIMIZATION_OPTIMIZER_STATES
    THEN [ raised |-> FALSE, optimizer |-> "FP16_DeepSpeedZeroOptimizer_Stage1" ]
    ELSE IF c.zero_optimization_stage = ZERO_OPTIMIZATION_GRADIENTS
    THEN IF c.gradient_accumulation_steps = 1
         THEN [ raised |-> FALSE, optimizer |-> "FP16_DeepSpeedZeroOptimizer" ]
         ELSE [ raised |-> TRUE, optimizer |-> "None" ]
    ELSE [ raised |-> TRUE, optimizer |-> "None" ]

(* _configure_zero_optimizer: the optimizer built, or the exception *)
configure_zero_optimizer(c) ==
    IF c.zero_optimization_stage = ZERO_OPTIMIZATION_OPTIMIZER_STATES
    THEN IF c.zero_reduce_scatter
         THEN [ raised |-> FALSE, optimizer |-> "FP16_DeepSpeedZeroOptimizer_Stage1" ]
         ELSE [ raised |-> TRUE, optimizer |-> "None" ]
    ELSE IF c.zero_optimization_stage = ZERO_OPTIMIZATION_GRADIENTS
    THEN IF c.gradient_accumulation_steps = 1
         THEN [ raised |-> FALSE, optimizer |-> "FP16_DeepSpeedZeroOptimizer" ]
         ELSE [ raised |-> TRUE, optimizer |-> "None" ]
    ELSE [ raised |-> TRUE, optimizer |-> "None" ]

(* Mutant: the amp branch does not broadcast the module.                   *)
configure_optimizer_AmpWithoutBroadcast(c) ==
    IF c.zero_optimization_stage > 0
    THEN IF c.amp_enabled
         THEN [ raised |-> TRUE, optimizer |-> "None", amp |-> FALSE ]
         ELSE [ raised |-> configure_zero_optimizer(c).raised,
                optimizer |-> configure_zero_optimizer(c).optimizer,
                amp |-> FALSE ]
    ELSE IF c.amp_enabled
    THEN IF c.fp16_enabled
         THEN [ raised |-> TRUE, optimizer |-> "None", amp |-> FALSE ]
         ELSE [ raised |-> FALSE, optimizer |-> "amp", amp |-> FALSE ]
    ELSE IF c.fp16_enabled
    THEN [ raised |-> FALSE, optimizer |-> "FP16_Optimizer", amp |-> FALSE ]
    ELSE [ raised |-> FALSE, optimizer |-> "basic_optimizer", amp |-> FALSE ]

(* _configure_optimizer: the optimizer built or the exception, and whether *)
(* the amp branch was taken (amp.initialize, then _broadcast_model).       *)
configure_optimizer(c) ==
    IF c.zero_optimization_stage > 0
    THEN IF c.amp_enabled
         THEN [ raised |-> TRUE, optimizer |-> "None", amp |-> FALSE ]
         ELSE [ raised |-> configure_zero_optimizer(c).raised,
                optimizer |-> configure_zero_optimizer(c).optimizer,
                amp |-> FALSE ]
    ELSE IF c.amp_enabled
    THEN IF c.fp16_enabled
         THEN [ raised |-> TRUE, optimizer |-> "None", amp |-> FALSE ]
         ELSE [ raised |-> FALSE, optimizer |-> "amp", amp |-> TRUE ]
    ELSE IF c.fp16_enabled
    THEN [ raised |-> FALSE, optimizer |-> "FP16_Optimizer", amp |-> FALSE ]
    ELSE [ raised |-> FALSE, optimizer |-> "basic_optimizer", amp |-> FALSE ]

(* __init__ from its first line to the end of                              *)
(* _configure_distributed_model: the sanity check, _init_distributed, the  *)
(* module cast and the topology attributes; without amp the rank then      *)
(* enters the broadcast of the module.                                     *)
ConfigureDistributedModel(g) ==
    /\ construct[g].pc = "start"
    /\ construct' = [construct EXCEPT ![g] =
          IF ~do_sanity_check
          THEN [@ EXCEPT !.pc = "raised"]
          ELSE [@ EXCEPT
                  !.world_size = init_distributed(g).world_size,
                  !.global_rank = init_distributed(g).global_rank,
                  !.module.dtype = IF config.fp16_enabled THEN "half" ELSE @,
                  !.data_parallel_group = configure_distributed_model(g).data_parallel_group,
                  !.dp_world_size = configure_distributed_model(g).dp_world_size,
                  !.mp_world_size = configure_distributed_model(g).mp_world_size,
                  !.broadcast_src_rank = configure_distributed_model(g).broadcast_src_rank,
                  !.pc = IF ~config.amp_enabled THEN "broadcast" ELSE "optimizer",
                  !.resume = IF ~config.amp_enabled THEN "optimizer" ELSE "none"]]
    /\ UNCHANGED <<init_args, parallel_groups, ctlVars, redVars, csrVars, ckptVars, lossVars, logVars>>

(* _broadcast_model: dist.broadcast of every parameter from                *)
(* broadcast_src_rank over data_parallel_group. The collective completes   *)
(* when every rank of the group has entered it.                            *)
BroadcastModel(g) ==
    /\ construct[g].pc = "broadcast"
    /\ \A h \in construct[g].data_parallel_group : construct[h].pc = "broadcast"
    /\ construct' = [h \in DOMAIN construct |->
          IF h \in construct[g].data_parallel_group
          THEN [construct[h] EXCEPT
                  !.module.weights = construct[construct[h].broadcast_src_rank].module.weights,
                  !.broadcasts = @ + 1,
                  !.pc = construct[h].resume,
                  !.resume = "none"]
          ELSE construct[h]]
    /\ UNCHANGED <<init_args, parallel_groups, ctlVars, redVars, csrVars, ckptVars, lossVars, logVars>>

(* __init__ from the timers to its last line: the optimizer is configured  *)
(* when model parameters or an optimizer are given; the amp branch ends in *)
(* the broadcast of the module.                                            *)
ConfigureOptimizer(g) ==
    /\ construct[g].pc = "optimizer"
    /\ construct' = [construct EXCEPT ![g] =
          IF ~(init_args.model_parameters \/ init_args.optimizer)
          THEN [@ EXCEPT !.pc = "done"]
          ELSE IF configure_optimizer(config).raised
          THEN [@ EXCEPT !.pc = "raised"]
          ELSE IF configure_optimizer(config).amp
          THEN [@ EXCEPT !.optimizer = configure_optimizer(config).optimizer,
                         !.module.amp = TRUE,
                         !.pc = "broadcast",
                         !.resume = "done"]
          ELSE [@ EXCEPT !.optimizer = configure_optimizer(config).optimizer,
                         !.pc = "done"]]
    /\ UNCHANGED <<init_args, parallel_groups, ctlVars, redVars, csrVars, ckptVars, lossVars, logVars>>

(* The engine of data-parallel rank r (of model-parallel rank 0) exists:   *)
(* its constructor has returned.                                           *)
Constructed(r) == construct[r * mp_world_size].pc = "done"

(* The training loop's first micro-step on the constructed engine. *)
TrainConstructed(r) ==
    /\ Constructed(r)
    /\ \/ step_calls[r] = 0 /\ Forward(r)
       \/ Backward(r)
       \/ ReduceReturn(r)
       \/ Step(r)
       \/ StepReturn(r)

ConstructInit ==
    \E t \in Topologies :
        /\ InitController(t[2], AnyConfigs, {DefaultScript})
        /\ NoReduction
        /\ NoGather
        /\ names = [ made |-> FALSE ]
        /\ mp_world_size = t[1]
        /\ client_state = <<>>
        /\ dirs = {}
        /\ files = <<>>
        /\ save = <<>>
        /\ write_log = <<>>
        /\ loader = [ none |-> TRUE ]
        /\ load_result = [ made |-> FALSE ]
        /\ NoLoss
        /\ NoProgress
        /\ init_args \in InitArgs
        /\ init_args.mpu \/ t[1] = 1
        /\ parallel_groups = [ none |-> TRUE ]
        /\ construct = [g \in 0 .. (t[1] * t[2] - 1) |-> NewConstruction(g)]

ConstructNext ==
    \/ \E g \in GlobalRanks : ConfigureDistributedModel(g)
    \/ \E g \in GlobalRanks : BroadcastModel(g)
    \/ \E g \in GlobalRanks : ConfigureOptimizer(g)
    \/ \E r \in Ranks : TrainConstructed(r)

ConstructSpec == ConstructInit /\ [][ConstructNext]_vars


(***************************************************************************)
(* _initialize_parameter_parallel_groups called by every process of a job  *)
(* with one requested group size; called with the default size it is the   *)
(* call of _configure_distributed_model without an mpu, and the topology   *)
(* attributes the engine then sets are recorded with it.                   *)
(***************************************************************************)
NoMpuArgs ==
    [ mpu |-> FALSE, local_rank_set |-> TRUE, optimizer |-> FALSE, model_parameters |-> TRUE ]

InitializeParameterParallelGroups(g) ==
    /\ ~parallel_groups.rank[g].called
    /\ parallel_groups' = [parallel_groups EXCEPT !.rank[g] =
          [ called |-> TRUE,
            raised |-> initialize_parameter_parallel_groups(g, parallel_groups.size).raised,
            new_groups |->
                initialize_parameter_parallel_groups(g, parallel_groups.size).new_groups,
            my_group |-> initialize_parameter_parallel_groups(g, parallel_groups.size).my_group,
            engine |-> IF parallel_groups.size = DefaultSize
                       THEN configure_distributed_model(g)
                       ELSE [ data_parallel_group |-> {}, dp_world_size |-> -1,
                              mp_world_size |-> -1, broadcast_src_rank |-> -1 ],
            ckpt_name |-> get_ckpt_name(save_dir, tag, get_model_parallel_rank(g)) ]]
    /\ UNCHANGED <<init_args, construct, ctlVars, redVars, csrVars, ckptVars, lossVars, logVars>>

ParallelGroupInit ==
    \E world \in 1 .. MaxWorld :
        /\ InitController(world, {DefaultConfig}, {DefaultScript})
        /\ NoReduction
        /\ NoGather
        /\ NoCheckpoint
        /\ NoLoss
        /\ NoProgress
        /\ init_args = NoMpuArgs
        /\ construct = <<>>
        /\ \E size \in {DefaultSize} \cup (1 .. MaxWorld) :
               parallel_groups =
                   [ size |-> size,
                     rank |-> [g \in 0 .. (world - 1) |-> [ called |-> FALSE ]] ]

ParallelGroupNext == \E g \in GlobalRanks : InitializeParameterParallelGroups(g)

ParallelGroupSpec == ParallelGroupInit /\ [][ParallelGroupNext]_vars


(***************************************************************************)
(* backward(loss) and the gradient accumulated over a cycle: one engine    *)
(* with a plain optimizer, every accumulation step count. A loss tensor is *)
(* its element type, its value and its gradient with respect to a          *)
(* parameter; loss.backward() adds that gradient to param.grad. Values are *)
(* exact fractions.                                                        *)
(***************************************************************************)
Tensor(dtype, value, gradient) ==
    [ type |-> "Tensor", dtype |-> dtype, value |-> value, grad |-> gradient ]

(* The losses of a micro-step: value and gradient, in half or single       *)
(* precision.                                                              *)
Losses ==
    { Tensor(dtype, Frac(vg[1], 1), Frac(vg[2], 1)) :
        dtype \in {HalfTensor, FloatTensor}, vg \in {<<1, 2>>, <<3, -3>>, <<0, 1>>} }

(* loss.float() *)
Float(loss) == [loss EXCEPT !.dtype = FloatTensor]

(* Mutant: the loss is returned as it was given.                           *)
scale_loss_Unscaled(prescaled_loss) == prescaled_loss

(* _scale_loss: a tensor is divided by the accumulation steps, the tensors *)
(* of a tuple or list each; anything else is returned as it is.            *)
scale_loss(prescaled_loss) ==
    IF prescaled_loss.type = "Tensor"
    THEN [prescaled_loss EXCEPT
            !.value = Mul(@, Frac(1, gradient_accumulation_steps)),
            !.grad = Mul(@, Frac(1, gradient_accumulation_steps))]
    ELSE IF prescaled_loss.type = "tuple"
    THEN [prescaled_loss EXCEPT !.items =
            [i \in DOMAIN @ |->
                IF @[i].type = "Tensor"
                THEN [@[i] EXCEPT
                        !.value = Mul(@, Frac(1, gradient_accumulation_steps)),
                        !.grad = Mul(@, Frac(1, gradient_accumulation_steps))]
                ELSE @[i]]]
    ELSE prescaled_loss

(* The loss backward() propagates and returns. *)
backward_loss(loss) ==
    IF gradient_accumulation_steps > 1 THEN scale_loss(Float(loss)) ELSE loss

(* Nothing propagated, param.grad cleared. *)
NewCycle(applied) ==
    [ given |-> <<>>, propagated |-> <<>>, param_grad |-> Zero, applied |-> applied ]

(* backward(loss) with a plain optimizer: the loss is scaled and           *)
(* loss.backward() accumulates its gradient. In a group of one rank the    *)
(* reduction at the boundary leaves the gradient as it is.                 *)
BackwardLoss(r) ==
    /\ pc[r] = "forward_done"
    /\ \E loss \in Losses :
          autograd' = [autograd EXCEPT
              !.given = Append(@, loss),
              !.propagated = Append(@, backward_loss(loss)),
              !.param_grad = Add(@, backward_loss(loss).grad)]
    /\ engine' = [engine EXCEPT ![r].grad_count = @ + 1]
    /\ pc' = [pc EXCEPT ![r] = "backward_done"]
    /\ UNCHANGED <<dp_world_size, config, script, reduce_log, ovf_flags, ovf_results,
                   ovf_round, decision_log, step_calls, step_pre, last, query>>
    /\ UNCHANGED <<redVars, csrVars, ckptVars, conVars, logVars>>

(* step(): at a boundary the optimizer takes param.grad and zero_grad      *)
(* clears it.                                                              *)
StepLoss(r) ==
    /\ pc[r] = "backward_done"
    /\ IF is_gradient_accumulation_boundary(engine[r])
       THEN /\ engine' = [engine EXCEPT ![r] = StepTail(StepHead(@), FALSE)]
            /\ autograd' = NewCycle([ made |-> TRUE,
                                      losses |-> autograd.given,
                                      grad |-> autograd.param_grad ])
       ELSE /\ engine' = [engine EXCEPT ![r] = StepNonBoundary(@)]
            /\ UNCHANGED autograd
    /\ pc' = [pc EXCEPT ![r] = "idle"]
    /\ step_calls' = [step_calls EXCEPT ![r] = @ + 1]
    /\ UNCHANGED <<dp_world_size, config, script, reduce_log, ovf_flags, ovf_results,
                   ovf_round, decision_log, step_pre, last, query>>
    /\ UNCHANGED <<redVars, csrVars, ckptVars, conVars, logVars>>

LossConfigs ==
    { [DefaultConfig EXCEPT !.gradient_accumulation_steps = k] : k \in 1 .. MaxK }

LossInit ==
    /\ InitController(1, LossConfigs, {DefaultScript})
    /\ NoReduction
    /\ NoGather
    /\ NoCheckpoint
    /\ NoConstruction
    /\ autograd = NewCycle([ made |-> FALSE ])
    /\ NoProgress

LossNext ==
    \/ \E r \in Ranks : Forward(r)
    \/ \E r \in Ranks : BackwardLoss(r)
    \/ \E r \in Ranks : StepLoss(r)

LossSpec == LossInit /\ [][LossNext]_vars


(***************************************************************************)
(*                          Properties                                     *)
(***************************************************************************)
BoundaryOverflowCall(r) == last[r].made /\ last[r].boundary /\ last[r].overflow

C2_SkippedStepsCountsOverflows ==
    \A r \in Ranks :
        last[r].made =>
            last[r].after.skipped_steps =
                last[r].before.skipped_steps + (IF BoundaryOverflowCall(r) THEN 1 ELSE 0)

C2_Witness ==
    \E r \in Ranks :
        /\ BoundaryOverflowCall(r)
        /\ last[r].before.skipped_steps = 1
        /\ last[r].after.skipped_steps = 2
        /\ pc[r] = "idle"

(* C3: with a scheduler present, a step() call advances the schedule once  *)
(* if it is at a boundary and sees no overflow, and not at all otherwise;  *)
(* so schedule advances + skipped_steps = boundary step() calls.           *)
C3_ScheduleAdvancesOncePerAppliedStep ==
    \A r \in Ranks :
        config.has_lr_scheduler =>
            /\ last[r].made =>
                  last[r].after.lr_steps =
                      last[r].before.lr_steps
                          + (IF last[r].boundary /\ ~last[r].overflow THEN 1 ELSE 0)
            /\ pc[r] # "in_optimizer_step" =>
                  engine[r].lr_steps + engine[r].skipped_steps = Len(decision_log[r])

C3_Witness ==
    \E r \in Ranks :
        /\ config.has_lr_scheduler
        /\ engine[r].lr_steps = 2
        /\ engine[r].skipped_steps = 1
        /\ Len(decision_log[r]) = 3

(* C4: is_gradient_accumulation_boundary() is true exactly when            *)
(* (micro_steps + 1) % K = 0, it leaves the engine as it was, and with     *)
(* K = 1 it is true at every micro-step; step() takes its boundary branch  *)
(* on the same condition.                                                  *)
C4_BoundaryPredicate ==
    \A r \in Ranks :
        /\ query[r].made =>
              /\ query[r].result <=>
                    (query[r].before.micro_steps + 1) % config.gradient_accumulation_steps = 0
              /\ engine[r] = query[r].before
              /\ (config.gradient_accumulation_steps = 1 => query[r].result)
        /\ last[r].made =>
              (last[r].boundary <=>
                  (last[r].before.micro_steps + 1) % config.gradient_accumulation_steps = 0)

C4_Witness ==
    \E r \in Ranks :
        /\ config.gradient_accumulation_steps = 2
        /\ query[r].made
        /\ query[r].result
        /\ query[r].before.micro_steps = 3

(* C5: from a fresh engine, with no overflow, after n micro-steps with     *)
(* accumulation steps K there have been floor(n/K) boundary events and     *)
(* optimizer steps, and global_steps = floor(n/K).                         *)
C5_BoundariesAfterNMicroSteps ==
    \A r \in Ranks :
        (pc[r] = "idle" /\ engine[r].skipped_steps = 0) =>
            LET n == step_calls[r]
                K == config.gradient_accumulation_steps
            IN  /\ Len(decision_log[r]) = n \div K
                /\ engine[r].opt_steps = n \div K
                /\ engine[r].global_steps = n \div K

C5_Witness ==
    \E r \in Ranks :
        /\ config.gradient_accumulation_steps = 2
        /\ step_calls[r] = 4
        /\ pc[r] = "idle"
        /\ engine[r].skipped_steps = 0
        /\ Len(decision_log[r]) = 2
        /\ engine[r].global_steps = 2

(* C6: a step() call off the boundary clips nothing, steps and zeroes      *)
(* nothing, and changes nothing of the engine but micro_steps, which every *)
(* step() call increases by exactly 1.                                     *)
C6_NonBoundaryStepOnlyCountsMicroStep ==
    \A r \in Ranks :
        last[r].made =>
            /\ last[r].after.micro_steps = last[r].before.micro_steps + 1
            /\ ~last[r].boundary =>
                  last[r].after = [last[r].before EXCEPT !.micro_steps = @ + 1]

C6_Witness ==
    \E r \in Ranks :
        /\ last[r].made
        /\ ~last[r].boundary
        /\ config.gradient_clipping
        /\ last[r].before.grad_count = 1
        /\ last[r].after.grad_count = 1
        /\ last[r].before.global_steps = 1

(* C7: at every boundary all ranks of the group make the same decision:    *)
(* no rank counts as skipped a step that another rank applies, whatever    *)
(* the ranks' local non-finite flags.                                      *)
C7_SameSkipApplyDecision ==
    \A r1, r2 \in Ranks :
        \A i \in 1 .. Len(decision_log[r1]) :
            i <= Len(decision_log[r2]) =>
                /\ decision_log[r1][i] = decision_log[r2][i]
                /\ decision_log[r1][i] \in {"skip", "apply"}

C7_Witness ==
    \E r1, r2 \in Ranks :
        /\ BoundaryOverflowCall(r1)
        /\ BoundaryOverflowCall(r2)
        /\ last[r1].before.micro_steps = last[r2].before.micro_steps
        /\ last[r1].before.grad_nonfinite
        /\ ~last[r2].before.grad_nonfinite
        /\ Len(decision_log[r1]) = Len(decision_log[r2])
        /\ decision_log[r1][Len(decision_log[r1])] = "skip"
        /\ decision_log[r2][Len(decision_log[r2])] = "skip"

(* The backward() calls rank r has made so far. *)
BackwardCalls(r) ==
    step_calls[r] + (IF pc[r] \in {"in_reduce", "backward_done", "in_optimizer_step"}
                     THEN 1 ELSE 0)

IsPrefix(s, t) == Len(s) <= Len(t) /\ \A i \in 1 .. Len(s) : s[i] = t[i]

(* C8: ranks running the same sequence of backward()/step() calls issue    *)
(* their gradient-reduction collectives at the same micro-steps and in the *)
(* same order, whatever their overflow outcomes; no rank waits in a        *)
(* reduction that another rank has gone past without calling it.           *)
C8_SameReductionSequence ==
    \A r1, r2 \in Ranks :
        /\ BackwardCalls(r1) <= BackwardCalls(r2) =>
              IsPrefix(reduce_log[r1], reduce_log[r2])
        /\ (pc[r1] = "in_reduce" /\ BackwardCalls(r2) >= BackwardCalls(r1)) =>
              /\ Len(reduce_log[r2]) >= Len(reduce_log[r1])
              /\ reduce_log[r2][Len(reduce_log[r1])] = reduce_log[r1][Len(reduce_log[r1])]

C8_Witness ==
    \E r1, r2 \in Ranks :
        /\ pc[r1] = "in_reduce"
        /\ Len(reduce_log[r1]) = 3
        /\ Len(reduce_log[r2]) = 2
        /\ engine[r1].skipped_steps = 1
        /\ engine[r1].grad_nonfinite
        /\ ~engine[r2].grad_nonfinite


(***************************************************************************)
(* C10: for any ordered list of dense gradient tensors, any bucket         *)
(* threshold and any world size, the values allreduce_no_retain writes     *)
(* back equal, tensor by tensor and on every rank, the values obtained by  *)
(* reducing each tensor in a collective call of its own (a bucket holding  *)
(* that tensor alone); the threshold decides only how many collective      *)
(* calls are made.                                                         *)
(***************************************************************************)
ReducedAlone(p) ==
    allreduce_and_copy([r \in Ranks |-> <<grad_in[r][p].data>>], params[p].dtype)

NoRetainDone ==
    /\ rphase \in {"done", "diverged"}
    /\ ~rcfg.sparse_gradients_enabled
    /\ \A r \in Ranks : \A p \in 1 .. Len(params) : grad_in[r][p].present

C10_BucketedEqualsPerTensor ==
    NoRetainDone =>
        /\ rphase = "done"
        /\ \A r \in Ranks : \A p \in 1 .. Len(params) :
               /\ grad[r][p].present
               /\ grad[r][p].data = ReducedAlone(p)[r][1]
        /\ \A r \in Ranks : Len(calls[r]) <= Len(params)

(* Three tensors go out in two collective calls, the second one flushed    *)
(* when the loop has ended, and the reduction changed a value.             *)
C10_Witness ==
    /\ NoRetainDone
    /\ dp_world_size > 1
    /\ Len(params) = 3
    /\ \A r \in Ranks : flushed[r] = << <<1, 2>>, <<3>> >>
    /\ \E r \in Ranks : grad[r] # grad_in[r]


(***************************************************************************)
(* C9: after buffered_allreduce_fallback, for every module parameter the   *)
(* gradient held by every rank is the average over the ranks of the local  *)
(* gradients, a rank with no local gradient contributing zero; this for    *)
(* every parameter, those with no gradient on some rank included, and for  *)
(* gradients of any element type.                                          *)
(***************************************************************************)
LocalGradient(r, p) ==
    IF grad_in[r][p].present THEN grad_in[r][p].data ELSE Zeros(params[p].numel)

GroupAverage(p) ==
    [i \in 1 .. params[p].numel |->
        Mul(SumRanks([r \in Ranks |-> LocalGradient(r, p)], i, dp_world_size - 1),
            Frac(1, dp_world_size))]

FallbackReturned == rphase \in {"done", "diverged"} /\ "sparse_gradients_enabled" \in DOMAIN rcfg

C9_EveryRankHoldsAverage ==
    FallbackReturned =>
        /\ rphase = "done"
        /\ \A r \in Ranks : \A p \in 1 .. Len(params) :
               /\ grad[r][p].present
               /\ grad[r][p].data = GroupAverage(p)


(***************************************************************************)
(* C11: with gradient averaging on, allreduce_bucket leaves on every rank  *)
(* the sum of the ranks' inputs divided by the world size, in prescale     *)
(* mode and in postscale mode with any predivide factor f (the multiply by *)
(* 1/f skipped when f = 1, the multiply by f/W skipped when f = W): the    *)
(* result does not depend on the mode or on f.                             *)
(***************************************************************************)
C11_BucketAveragesInBothModes ==
    (NoRetainDone /\ gradient_average) =>
        \A r \in Ranks : \A p \in 1 .. Len(params) :
            grad[r][p].data = GroupAverage(p)

(* Postscale with a factor that is neither 1 nor the world size, on more   *)
(* than one rank: both multiplies are made, and the values changed.        *)
C11_Witness ==
    /\ NoRetainDone
    /\ gradient_average
    /\ ~rcfg.prescale_gradients
    /\ dp_world_size > 1
    /\ rcfg.gradient_predivide_factor \notin {1, dp_world_size}
    /\ \E r \in Ranks : grad[r] # grad_in[r]


(***************************************************************************)
(* C12: csr_all_gather, called by all ranks with sequences of any lengths  *)
(* (different from rank to rank, zero included), returns on every rank the *)
(* same list, whose entry for rank d is exactly rank d's sequence, with no *)
(* padding left and no element lost; so after csr_allreduce every rank     *)
(* holds the ranks' indices concatenated in rank order and the ranks'      *)
(* values (as gathered, that is divided by the world size) concatenated in *)
(* rank order, both of the length the ranks' lengths add up to.            *)
(***************************************************************************)
RECURSIVE ConcatRanks(_, _)
ConcatRanks(seqs, q) == IF q < 0 THEN <<>> ELSE ConcatRanks(seqs, q - 1) \o seqs[q]

RECURSIVE TotalLen(_, _)
TotalLen(seqs, q) == IF q < 0 THEN 0 ELSE TotalLen(seqs, q - 1) + Len(seqs[q])

GatheredValues ==
    [q \in Ranks |->
        [k \in 1 .. Len(sparse_in[q].values) |->
            Mul(sparse_in[q].values[k], Frac(1, dp_world_size))]]

C12_GatherReturnsEveryRanksSequence ==
    /\ sparse_out.op = "csr_all_gather" =>
           \A r \in Ranks :
               /\ Len(sparse_out.result[r]) = dp_world_size
               /\ \A d \in 1 .. dp_world_size :
                      sparse_out.result[r][d] = sparse_in[d - 1].indices
    /\ sparse_out.op = "csr_allreduce" =>
           \A r \in Ranks :
               /\ sparse_out.result[r].indices
                      = ConcatRanks([q \in Ranks |-> sparse_in[q].indices], dp_world_size - 1)
               /\ sparse_out.result[r].values
                      = ConcatRanks(GatheredValues, dp_world_size - 1)
               /\ Len(sparse_out.result[r].indices) = Len(sparse_out.result[r].values)
               /\ Len(sparse_out.result[r].indices)
                      = TotalLen([q \in Ranks |-> sparse_in[q].indices], dp_world_size - 1)

(* csr_allreduce returned on two ranks or more, one of which had no row    *)
(* and another the most rows, a zero value among them.                     *)
C12_Witness ==
    /\ sparse_out.op = "csr_allreduce"
    /\ dp_world_size > 1
    /\ \E r, q \in Ranks :
           /\ Len(sparse_in[r].indices) = 0
           /\ Len(sparse_in[q].indices) = MaxRows
           /\ \E k \in 1 .. MaxRows : sparse_in[q].values[k] = Zero
    /\ \A r \in Ranks : Len(sparse_out.result[r].indices) = MaxRows


(***************************************************************************)
(* C20: for one directory and tag, two ranks that differ in their          *)
(* (model-parallel rank, data-parallel rank) pair get different            *)
(* optimizer-shard paths, two different model-parallel ranks get different *)
(* model-state paths, and no optimizer-shard path is a model-state path.   *)
(***************************************************************************)
C20_FileNamesInjective ==
    names.made =>
        /\ names.a # names.b => names.zero_a # names.zero_b
        /\ names.a.mp_rank # names.b.mp_rank => names.model_a # names.model_b
        /\ {names.zero_a, names.zero_b} \cap {names.model_a, names.model_b} = {}

(* Two ranks whose numbers written one after the other read the same:      *)
(* ranks (mp 11, dp 1) and (mp 1, dp 11).                                  *)
C20_Witness ==
    /\ names.made
    /\ names.a = [ mp_rank |-> 11, dp_rank |-> 1 ]
    /\ names.b = [ mp_rank |-> 1, dp_rank |-> 11 ]
    /\ names.zero_a = "checkpoints/step4/zero_pp_rank_1_mp_rank_11optim_states.pt"
    /\ names.zero_b = "checkpoints/step4/zero_pp_rank_11_mp_rank_01optim_states.pt"
    /\ names.model_b = "checkpoints/step4/mp_rank_01_model_states.pt"


(***************************************************************************)
(* C13: when load_checkpoint runs with a partitioned optimizer and one or  *)
(* more of the expected optimizer-shard files is missing, the optimizer's  *)
(* load_state_dict is not called: the optimizer state is not rebuilt from  *)
(* the shards that are there.                                              *)
(***************************************************************************)
LoadedModelPath == get_ckpt_name(save_dir, tag, get_model_parallel_rank(loader.rank))

(* The shard files a load expects: those of the loading rank's             *)
(* model-parallel rank, one per data-parallel rank of the saved topology.  *)
ExpectedShards ==
    { get_rank_zero_ckpt_name(save_dir, tag, get_model_parallel_rank(loader.rank), d) :
        d \in 0 .. (files[LoadedModelPath].dp_world_size - 1) }

ShardMissing ==
    /\ LoadedModelPath \in DOMAIN files
    /\ \E n \in ExpectedShards : n \notin DOMAIN files

C13_NoLoadFromPartialShards ==
    (load_result.made /\ zero_optimization /\ ShardMissing) =>
        /\ load_result.optimizer_loads = <<>>
        /\ loader.optimizer = load_result.before.optimizer

(* Two shards expected, one of them there, the other missing.              *)
C13_Witness ==
    /\ load_result.made
    /\ zero_optimization
    /\ ShardMissing
    /\ Cardinality(ExpectedShards) = 2
    /\ Cardinality(ExpectedShards \cap DOMAIN files) = 1
    /\ Len(load_result.invalid_zero_ckpt_paths) = 1

C15_NotFoundChangesNothing ==
    (load_result.made /\ LoadedModelPath \notin DOMAIN files) =>
        /\ load_result.load_path = "None"
        /\ load_result.client_state = "None"
        /\ ~load_result.zero_load_attempted
        /\ load_result.optimizer_loads = <<>>
        /\ loader = load_result.before

(* A partitioned engine that has trained; the shard files are there, the   *)
(* model-state file is not.                                                *)
C15_Witness ==
    /\ load_result.made
    /\ zero_optimization
    /\ LoadedModelPath \notin DOMAIN files
    /\ Cardinality(DOMAIN files) = 2
    /\ loader.global_steps = 2
    /\ loader.module = module_state_dict(RunningEngine)


InsideCheckAndCreate(g) == save[g].pc \in {"makedirs", "zero_makedirs"}

C17_DirectoryCreationSerialized ==
    \A g, q \in DOMAIN save :
        InsideCheckAndCreate(g) /\ InsideCheckAndCreate(q) => g = q

(***************************************************************************)
(* C18: the model-state file of each model-parallel rank is written by     *)
(* exactly one rank, the one of data-parallel rank 0 in that group: no     *)
(* rank of another data-parallel rank writes one, no file has two writes,  *)
(* and when all ranks have returned every model-parallel rank has its file.*)
(***************************************************************************)
ModelStateWrites == SelectSeq(write_log, LAMBDA w : w.kind = "model_states")

ShardWrites == SelectSeq(write_log, LAMBDA w : w.kind = "optim_states")

RankPairs == (0 .. (mp_world_size - 1)) \X (0 .. (dp_world_size - 1))

ShardPath(pair) == get_rank_zero_ckpt_name(save_dir, tag, pair[1], pair[2])

C19_OneShardPerRankPair ==
    (zero_optimization /\ \A g \in DOMAIN save : save[g].pc = "done")
        => /\ Len(ShardWrites) = mp_world_size * dp_world_size
           /\ Cardinality({ShardPath(pair) : pair \in RankPairs})
                  = mp_world_size * dp_world_size
           /\ \A pair \in RankPairs :
                  /\ ShardPath(pair) \in DOMAIN files
                  /\ files[ShardPath(pair)] = ZeroStates(pair[1], pair[2])
                  /\ \E k \in DOMAIN ShardWrites :
                         /\ ShardWrites[k].path = ShardPath(pair)
                         /\ get_model_parallel_rank(ShardWrites[k].rank) = pair[1]
                         /\ get_data_parallel_rank(ShardWrites[k].rank) = pair[2]
                         /\ \A j \in DOMAIN ShardWrites :
                                ShardWrites[j].path = ShardPath(pair) => j = k
           /\ DOMAIN files =
                  {ShardPath(pair) : pair \in RankPairs}
                      \cup {get_ckpt_name(save_dir, tag, mp_rank) :
                               mp_rank \in 0 .. (mp_world_size - 1)}
           /\ load_result.made
                  => /\ load_result.load_path # "None"
                     /\ load_result.zero_load_attempted
                     /\ load_result.invalid_zero_ckpt_paths = <<>>
                     /\ Len(load_result.optimizer_loads) = 1
                     /\ load_result.optimizer_loads[1].state_dict =
                            [k \in 1 .. dp_world_size |->
                                ZeroStates(get_model_parallel_rank(loader.rank),
                                           k - 1).optimizer_state_dict]

C19_Witness ==
    /\ zero_optimization
    /\ mp_world_size = 2
    /\ dp_world_size = 2
    /\ \A g \in DOMAIN save : save[g].pc = "done"
    /\ load_result.made
    /\ Len(load_result.optimizer_loads[1].state_dict) = 2
    /\ loader.rank = 3


(***************************************************************************)
(* C21: on a partitioned load the expected shard files are exactly W1      *)
(* paths, one per data-parallel rank 0 .. W1-1 in increasing order, for    *)
(* the caller's model-parallel rank, W1 being the data-parallel world size *)
(* recorded in the checkpoint and not the current one; when all exist the  *)
(* optimizer is passed the list of the W1 shard states in that order.      *)
(***************************************************************************)
RecordedDpWorldSize == files[LoadedModelPath].dp_world_size

C21_ExpectedShardsFromCheckpoint ==
    (load_result.made /\ load_result.zero_load_attempted) =>
        LET mp_rank == get_model_parallel_rank(loader.rank)
        IN  /\ loader.loaded_checkpoint_dp_world_size = RecordedDpWorldSize
            /\ Len(load_result.zero_ckpt_names) = RecordedDpWorldSize
            /\ \A k \in 1 .. RecordedDpWorldSize :
                   load_result.zero_ckpt_names[k]
                       = get_rank_zero_ckpt_name(save_dir, tag, mp_rank, k - 1)
            /\ ~ShardMissing =>
                   /\ Len(load_result.optimizer_loads) = 1
                   /\ load_result.optimizer_loads[1].state_dict
                          = [k \in 1 .. RecordedDpWorldSize |->
                                ZeroStates(mp_rank, k - 1).optimizer_state_dict]

(* A checkpoint of two data-parallel ranks loaded by a job of one, by the  *)
(* rank of model-parallel rank 1.                                          *)
C21_Witness ==
    /\ load_result.made
    /\ load_result.zero_load_attempted
    /\ ~ShardMissing
    /\ RecordedDpWorldSize = 2
    /\ dp_world_size = 1
    /\ get_model_parallel_rank(loader.rank) = 1
    /\ Len(load_result.optimizer_loads[1].state_dict) = 2


(***************************************************************************)
(* C22: for any engine state reached by training, save_checkpoint followed *)
(* by load_checkpoint of the same directory and tag at unchanged topology, *)
(* in the same or a freshly constructed engine, restores global_steps,     *)
(* skipped_steps and the module weights to the values they had at save     *)
(* time. As stated this fails for a save whose client_state has one of     *)
(* these keys.                                                             *)
(***************************************************************************)
SavedEngine == ModelStateWrites[1].engine

Restored ==
    /\ loader.global_steps = SavedEngine.global_steps
    /\ loader.skipped_steps = SavedEngine.skipped_steps
    /\ loader.module = module_state_dict(SavedEngine)

C23_ClientStateRoundTrips ==
    (load_result.made /\ load_result.load_path # "None") =>
        /\ DOMAIN load_result.client_state = DOMAIN client_state
        /\ \A key \in DOMAIN client_state :
               load_result.client_state[key] = client_state[key]
        /\ DOMAIN load_result.client_state \cap deepspeed_states = {}

(***************************************************************************)
(* C23, amended: the client state returned is the saved mapping without    *)
(* its engine-owned keys: it has no engine-owned entry, and it equals the  *)
(* saved mapping when that has none.                                       *)
(***************************************************************************)
C23_ClientStateWithoutEngineKeys ==
    (load_result.made /\ load_result.load_path # "None") =>
        /\ DOMAIN load_result.client_state = DOMAIN client_state \ deepspeed_states
        /\ \A key \in DOMAIN load_result.client_state :
               /\ load_result.client_state[key] = client_state[key]
               /\ key \notin { "module", "optimizer", "lr_scheduler",
                               "csr_tensor_module_names", "skipped_steps",
                               "global_steps", "dp_world_size", "mp_world_size" }

(* A mapping with a key of the client's and one of the engine's, saved and *)
(* loaded at two by two ranks.                                             *)
C23_Witness ==
    /\ load_result.made
    /\ load_result.load_path # "None"
    /\ DOMAIN client_state = {"epoch", "global_steps"}
    /\ DOMAIN load_result.client_state = {"epoch"}
    /\ load_result.client_state["epoch"] = 7
    /\ mp_world_size = 2
    /\ dp_world_size = 2


(***************************************************************************)
(* C24: when load_checkpoint is called with load_optimizer_states=False    *)
(* the optimizer's states after the load equal those before it, in every   *)
(* optimizer configuration (plain, fp16, partitioned); with                *)
(* load_lr_scheduler_states=False the scheduler state is unchanged.        *)
(***************************************************************************)
C24_UnrequestedStatesKept ==
    (load_result.made /\ load_result.load_path # "None") =>
        /\ ~load_result.load_optimizer_states
               => loader.optimizer = load_result.before.optimizer
        /\ ~load_result.load_lr_scheduler_states
               => loader.lr_scheduler = load_result.before.lr_scheduler


(***************************************************************************)
(* Construction.                                                           *)
(***************************************************************************)

(* No forward, backward or step call has been made on any rank. *)
NeverTrained ==
    \A r \in Ranks : pc[r] = "idle" /\ step_calls[r] = 0 /\ engine[r] = NewEngine

(* C25: with ZeRO stage 2 and more than one gradient accumulation step no  *)
(* rank's constructor returns an engine, so no forward, backward or step   *)
(* call is ever made.                                                      *)
C25_Stage2AccumulationRejected ==
    (/\ config.zero_optimization_stage = ZERO_OPTIMIZATION_GRADIENTS
     /\ config.gradient_accumulation_steps > 1)
    => /\ \A g \in DOMAIN construct : construct[g].pc # "done"
       /\ NeverTrained

(* Stage 2 with accumulation: a rank's constructor has raised in           *)
(* _configure_zero_optimizer, after the broadcast of the module.           *)
C25_Witness ==
    /\ config.zero_optimization_stage = ZERO_OPTIMIZATION_GRADIENTS
    /\ config.gradient_accumulation_steps > 1
    /\ ~config.amp_enabled
    /\ \E g \in DOMAIN construct :
          construct[g].pc = "raised" /\ construct[g].broadcasts = 1

(* C26: with ZeRO stage 1 and reduce-scatter off no rank's constructor     *)
(* returns an engine; in stage 1 every reduction at a boundary is the      *)
(* optimizer's reduce_scatter_gradients, never the bucketed all-reduce.    *)
C26_Stage1OnlyReduceScatter ==
    config.zero_optimization_stage = ZERO_OPTIMIZATION_OPTIMIZER_STATES
    => /\ ~config.zero_reduce_scatter
          => (\A g \in DOMAIN construct : construct[g].pc # "done") /\ NeverTrained
       /\ \A r \in Ranks : \A i \in DOMAIN reduce_log[r] :
             reduce_log[r][i].kind = "reduce_scatter_gradients"

(* Stage 1 without reduce-scatter: a rank's constructor has raised in      *)
(* _configure_zero_optimizer.                                              *)
C26_Witness ==
    /\ config.zero_optimization_stage = ZERO_OPTIMIZATION_OPTIMIZER_STATES
    /\ ~config.zero_reduce_scatter
    /\ \E g \in DOMAIN construct :
          construct[g].pc = "raised" /\ construct[g].broadcasts = 1

(* Stage 1 with reduce-scatter: a constructed engine has reduced at a      *)
(* boundary.                                                               *)
Stage1Reduced ==
    /\ config.zero_optimization_stage = ZERO_OPTIMIZATION_OPTIMIZER_STATES
    /\ \E r \in Ranks : Constructed(r) /\ reduce_log[r] # <<>> /\ engine[r].grad_reduced

(* C27: on every rank whose constructor has returned, dp_world_size times  *)
(* mp_world_size is world_size.                                            *)
C27_WorldSizeIsProduct ==
    \A g \in DOMAIN construct :
        construct[g].pc = "done"
        => construct[g].dp_world_size * construct[g].mp_world_size = construct[g].world_size

(* The same where the launcher has set args.local_rank. *)
WorldSizeIsProductWhenLaunched ==
    init_args.local_rank_set => C27_WorldSizeIsProduct

(* The source rank of g's data-parallel group: its data-parallel rank 0.   *)
SourceRank(g) == get_model_parallel_rank(g)

(* C28: when a rank's constructor returns, its module's parameters are the *)
(* parameters of the source rank of its data-parallel group, and it has    *)
(* taken part in exactly one broadcast of the module.                      *)
C28_ReplicasStartIdentical ==
    \A g \in DOMAIN construct :
        construct[g].pc = "done"
        => /\ construct[g].module.weights = NewConstruction(SourceRank(g)).module.weights
           /\ construct[g].module.weights = construct[SourceRank(g)].module.weights
           /\ construct[g].broadcasts = 1

(* With amp and an mpu, a rank that is not its group's source has been     *)
(* constructed.                                                            *)
C28_Witness ==
    /\ config.amp_enabled
    /\ init_args.mpu
    /\ mp_world_size > 1
    /\ \E g \in DOMAIN construct :
          /\ construct[g].pc = "done"
          /\ g # SourceRank(g)
          /\ SourceRank(g) # 0
          /\ construct[g].module.amp


(***************************************************************************)
(* The loss scaling of backward().                                         *)
(***************************************************************************)
RECURSIVE SumGrads(_)
SumGrads(losses) ==
    IF losses = <<>> THEN Zero ELSE Add(Head(losses).grad, SumGrads(Tail(losses)))

(* C29: backward(loss) propagates the loss divided by the accumulation     *)
(* steps K when K > 1 and the loss unchanged when K = 1; the gradient the  *)
(* optimizer takes at the end of a cycle is the sum of the cycle's K       *)
(* micro-step loss gradients divided by K.                                 *)
C29_AccumulatedGradientIsAverage ==
    /\ \A i \in DOMAIN autograd.given :
          IF gradient_accumulation_steps > 1
          THEN /\ autograd.propagated[i].value =
                     Frac(autograd.given[i].value[1],
                          autograd.given[i].value[2] * gradient_accumulation_steps)
               /\ autograd.propagated[i].grad =
                     Frac(autograd.given[i].grad[1],
                          autograd.given[i].grad[2] * gradient_accumulation_steps)
          ELSE autograd.propagated[i] = autograd.given[i]
    /\ autograd.applied.made
       => /\ Len(autograd.applied.losses) = gradient_accumulation_steps
          /\ autograd.applied.grad =
                Frac(SumGrads(autograd.applied.losses)[1],
                     SumGrads(autograd.applied.losses)[2] * gradient_accumulation_steps)

(* A cycle of more than one micro-step with different losses has been      *)
(* applied, and the next cycle's first loss has been propagated.           *)
C29_Witness ==
    /\ gradient_accumulation_steps > 1
    /\ autograd.applied.made
    /\ autograd.applied.losses[1].grad # autograd.applied.losses[2].grad
    /\ autograd.applied.grad # Zero
    /\ autograd.applied.grad # SumGrads(autograd.applied.losses)
    /\ Len(autograd.given) = 1


(***************************************************************************)
(* The collective calls of buffered_allreduce_fallback.                    *)
(***************************************************************************)

(* C30: whatever parameters have no gradient on which ranks, every rank    *)
(* issues the same sequence of collective calls in                         *)
(* buffered_allreduce_fallback (the same kind, element type and element    *)
(* count at each position), with sparse gradients enabled and an embedding *)
(* gradient present on some ranks only, too.                               *)
C30_SameCollectiveSequence ==
    FallbackReturned =>
        /\ rphase = "done"
        /\ \A r, q \in Ranks : calls[r] = calls[q]

(* An embedding parameter has a gradient on one rank and none on another   *)
(* while sparse gradients are enabled.                                     *)
EmbeddingGradientOnSomeRanks ==
    /\ rcfg.sparse_gradients_enabled
    /\ \E p \in 1 .. Len(params) : \E r, q \in Ranks :
          params[p].embedding /\ grad_in[r][p].present /\ ~grad_in[q][p].present

(* The same sequence on every rank in every other case. *)
SameCollectiveSequenceOtherwise ==
    (FallbackReturned /\ ~EmbeddingGradientOnSomeRanks) => C30_SameCollectiveSequence

(* Absent gradients of dense parameters on some ranks, the calls made. *)
DenseGradientOnSomeRanks ==
    /\ FallbackReturned
    /\ ~EmbeddingGradientOnSomeRanks
    /\ \E p \in 1 .. Len(params) : \E r, q \in Ranks :
          grad_in[r][p].present /\ ~grad_in[q][p].present
    /\ \A r \in Ranks : calls[r] # <<>>


(***************************************************************************)
(* The buckets of allreduce_no_retain.                                     *)
(***************************************************************************)

(* The element count of the i-th bucket rank r flushed. *)
FlushedNumel(r, i) ==
    SumSeq([k \in 1 .. Len(flushed[r][i]) |-> params[flushed[r][i][k]].numel])

NoTensorAboveThreshold ==
    \A p \in 1 .. Len(params) : params[p].numel <= rcfg.elements_per_buffer

(* C31: when no tensor of the list has more elements than numel_per_bucket *)
(* every bucket allreduce_no_retain flushes has at most numel_per_bucket   *)
(* elements.                                                               *)
C31_BucketWithinThreshold ==
    (NoRetainDone /\ NoTensorAboveThreshold) =>
        \A r \in Ranks : \A i \in DOMAIN flushed[r] :
            FlushedNumel(r, i) <= rcfg.elements_per_buffer

(* What the loop does bound: a bucket without its last tensor is within    *)
(* the threshold, and a bucket flushed inside the loop is above it.        *)
BucketWithinThresholdBeforeLastTensor ==
    NoRetainDone =>
        \A r \in Ranks : \A i \in DOMAIN flushed[r] :
            /\ FlushedNumel(r, i) - params[flushed[r][i][Len(flushed[r][i])]].numel
                  <= rcfg.elements_per_buffer
            /\ i < Len(flushed[r]) => FlushedNumel(r, i) > rcfg.elements_per_buffer

RECURSIVE Concat(_)
Concat(buckets) ==
    IF buckets = <<>> THEN <<>> ELSE Head(buckets) \o Concat(Tail(buckets))

(* C32: allreduce_no_retain returns, no bucket it flushed is empty, and    *)
(* the flushed buckets one after the other are the input list in its       *)
(* order: every tensor is in exactly one bucket, the trailing ones         *)
(* included.                                                               *)
C32_BucketsPartitionInput ==
    (rphase # "ready" /\ "sparse_gradients_enabled" \in DOMAIN rcfg) =>
        /\ rphase = "done"
        /\ \A r \in Ranks :
              /\ \A i \in DOMAIN flushed[r] : flushed[r][i] # <<>>
              /\ Concat(flushed[r]) = [p \in 1 .. Len(params) |-> p]

(* Three tensors, the first two flushed inside the loop as one bucket and  *)
(* the third, below the threshold, after the loop.                         *)
C32_Witness ==
    /\ rphase = "done"
    /\ Len(params) = 3
    /\ params[3].numel <= rcfg.elements_per_buffer
    /\ \A r \in Ranks : flushed[r] = << <<1, 2>>, <<3>> >>


(***************************************************************************)
(* The reduction of an accumulation cycle.                                 *)
(***************************************************************************)

(* The reductions rank r issued in the backward() of micro-step m. *)
ReducedAt(r, m) == { i \in DOMAIN reduce_log[r] : reduce_log[r][i].micro_steps = m }

(* backward() of micro-step m has been called on rank r. *)
BackwardCalled(r, m) ==
    \/ m < engine[r].micro_steps
    \/ m = engine[r].micro_steps
          /\ pc[r] \in {"in_reduce", "backward_done", "in_optimizer_step"}

(* C33: the backward() of a boundary micro-step called with                *)
(* allreduce_gradients=True issues exactly one reduction, on the one path  *)
(* the configuration selects, before that micro-step's optimizer step; the *)
(* backward() of an accumulating micro-step and a backward() called with   *)
(* allreduce_gradients=False issue none.                                   *)
C33_OneReductionPerCycle ==
    \A r \in Ranks :
        /\ \A m \in 0 .. (MaxMicro - 1) :
              /\ Cardinality(ReducedAt(r, m)) =
                    IF /\ BackwardCalled(r, m)
                       /\ (m + 1) % config.gradient_accumulation_steps = 0
                       /\ script[m]
                    THEN 1 ELSE 0
              /\ \A i \in ReducedAt(r, m) :
                    reduce_log[r][i].kind =
                        CASE config.zero_optimization_stage = 0 -> "buffered_allreduce_fallback"
                          [] config.zero_optimization_stage = 1 -> "reduce_scatter_gradients"
                          [] config.zero_optimization_stage = 2 ->
                                 "overlapping_partition_gradients_reduce_epilogue"
        /\ pc[r] = "in_reduce" =>
              engine[r].opt_steps =
                  engine[r].micro_steps \div config.gradient_accumulation_steps

(* Two cycles of two micro-steps, every backward() with the default        *)
(* argument: two reductions, at micro-steps 1 and 3, and two optimizer     *)
(* steps.                                                                  *)
C33_Witness ==
    /\ config.gradient_accumulation_steps = 2
    /\ \A m \in DOMAIN script : script[m]
    /\ \E r \in Ranks :
          /\ engine[r].micro_steps = 4
          /\ engine[r].opt_steps = 2
          /\ Len(reduce_log[r]) = 2
          /\ reduce_log[r][1].micro_steps = 1
          /\ reduce_log[r][2].micro_steps = 3


(***************************************************************************)
(* Construction without an mpu.                                            *)
(***************************************************************************)
CalledRanks == { g \in DOMAIN parallel_groups.rank : parallel_groups.rank[g].called }

(* C34: without an mpu every rank is put in one data-parallel group of all *)
(* the ranks of the world, with dp_world_size the world size,              *)
(* mp_world_size 1, broadcast source rank 0 and model-parallel rank 0 in   *)
(* the checkpoint name; every rank makes the same number of new_group      *)
(* calls; a requested group size that does not divide the world size is    *)
(* rejected.                                                               *)
C34_WholeWorldIsOneGroup ==
    /\ \A g \in CalledRanks :
          LET res == parallel_groups.rank[g]
          IN  /\ parallel_groups.size = DefaultSize
                 => /\ ~res.raised
                    /\ res.my_group = GlobalRanks
                    /\ res.new_groups = 1
                    /\ res.engine.data_parallel_group = GlobalRanks
                    /\ res.engine.dp_world_size = Cardinality(GlobalRanks)
                    /\ res.engine.mp_world_size = 1
                    /\ res.engine.broadcast_src_rank = 0
                    /\ res.ckpt_name = "checkpoints/step4/mp_rank_00_model_states.pt"
              /\ parallel_groups.size # DefaultSize
                 => /\ res.raised <=> Cardinality(GlobalRanks) % parallel_groups.size # 0
                    /\ ~res.raised
                       => g \in res.my_group
                          /\ Cardinality(res.my_group) = parallel_groups.size
    /\ \A g, h \in CalledRanks :
          parallel_groups.rank[g].new_groups = parallel_groups.rank[h].new_groups

(* Every rank of a world of more than one rank has made the call of        *)
(* construction without an mpu.                                            *)
C34_Witness ==
    /\ "size" \in DOMAIN parallel_groups
    /\ parallel_groups.size = DefaultSize
    /\ Cardinality(GlobalRanks) > 1
    /\ CalledRanks = GlobalRanks
    /\ \A g \in GlobalRanks : parallel_groups.rank[g].engine.dp_world_size > 1

(* A group size that does not divide the world size has been asked for. *)
GroupSizeRejected ==
    /\ "size" \in DOMAIN parallel_groups
    /\ parallel_groups.size > 1
    /\ \E g \in CalledRanks : parallel_groups.rank[g].raised


(***************************************************************************)
(* save_checkpoint on every rank of a job started in any of the ways the   *)
(* constructor accepts (with or without an mpu, with args.local_rank set   *)
(* by the launcher or left at -1), on a file system where os.makedirs may  *)
(* fail.                                                                   *)
(***************************************************************************)

(* os.makedirs raises for another reason than an existing directory (no    *)
(* permission, read-only file system): nothing is created, and             *)
(* _create_checkpoint_file catches the exception and returns False.        *)
MakedirsFails(g) ==
    /\ save[g].pc \in {"makedirs", "zero_makedirs"}
    /\ checkpoint_dirname(save_dir, tag) \notin dirs
    /\ LET created == [save[g] EXCEPT !.created = @ + 1, !.create_failed = TRUE]
       IN  save' = [save EXCEPT ![g] =
                       IF save[g].pc = "zero_makedirs"
                       THEN [created EXCEPT !.pc = "barrier", !.barriers = @ + 1]
                       ELSE [created EXCEPT !.pc = "save_checkpoint"]]
    /\ UNCHANGED <<names, mp_world_size, client_state, dirs, files, write_log, loader, load_result>>
    /\ UNCHANGED <<ctlVars, redVars, csrVars, conVars, lossVars, logVars>>

LaunchSaveInit ==
    \E t \in Topologies :
        /\ InitControllerFrom(t[2], {c \in CheckpointConfigs : c.has_lr_scheduler},
                              {DefaultScript}, TrainedState)
        /\ NoReduction
        /\ NoGather
        /\ NoLoss
        /\ NoProgress
        /\ init_args \in { a \in InitArgs : /\ a.optimizer
                                            /\ a.model_parameters
                                            /\ (t[1] > 1 => a.mpu) }
        /\ parallel_groups = [ none |-> TRUE ]
        /\ construct = <<>>
        /\ names = [ made |-> FALSE ]
        /\ mp_world_size = t[1]
        /\ client_state = <<>>
        /\ dirs \in InitialDirs
        /\ files = <<>>
        /\ save = [g \in GlobalRanks |-> SaveEntry(g)]
        /\ write_log = <<>>
        /\ loader = [ none |-> TRUE ]
        /\ load_result = [ made |-> FALSE ]

LaunchSaveNext ==
    \/ \E g \in GlobalRanks : EnsureDirectoryExists(g)
    \/ \E g \in GlobalRanks : Makedirs(g)
    \/ \E g \in GlobalRanks : MakedirsFails(g)
    \/ \E g \in GlobalRanks : SaveCheckpointFile(g)
    \/ \E g \in GlobalRanks : BarrierReturn(g)
    \/ \E g \in GlobalRanks : SaveZeroCheckpoint(g)

LaunchSaveSpec == LaunchSaveInit /\ [][LaunchSaveNext]_vars

(* Every rank goes on with its save_checkpoint whenever it can. *)
LaunchSaveFairSpec ==
    LaunchSaveSpec /\ \A g \in 0 .. (MaxWorld - 1) :
        /\ WF_vars(g \in GlobalRanks /\ EnsureDirectoryExists(g))
        /\ WF_vars(g \in GlobalRanks /\ (Makedirs(g) \/ MakedirsFails(g)))
        /\ WF_vars(g \in GlobalRanks /\ SaveCheckpointFile(g))
        /\ WF_vars(g \in GlobalRanks /\ BarrierReturn(g))
        /\ WF_vars(g \in GlobalRanks /\ SaveZeroCheckpoint(g))

(* save_checkpoint has returned True on rank g *)
ReturnedTrue(g) == save[g].pc = "done"

(* A rank that has returned from save_checkpoint has entered every barrier *)
(* that any rank enters.                                                   *)
EveryRankEntersEachBarrier ==
    \A g \in GlobalRanks, q \in GlobalRanks :
        ReturnedTrue(g) => save[q].barriers <= save[g].barriers

(* The same where the launcher has set args.local_rank. *)
EveryRankEntersEachBarrierWhenLaunched ==
    local_rank_set => EveryRankEntersEachBarrier

(* A rank waits at a barrier that a rank which has returned never entered. *)
WaitsForReturnedRank ==
    \E g \in GlobalRanks, q \in GlobalRanks :
        /\ ReturnedTrue(g)
        /\ save[q].pc = "barrier"
        /\ save[q].barriers > save[g].barriers

(* With args.local_rank set and no exception on any rank, the call         *)
(* returns on every rank.                                                  *)
ReturnsOnEveryRankWhenLaunched ==
    <>( \/ ~local_rank_set
        \/ \E g \in GlobalRanks : save[g].pc = "raised"
        \/ \A g \in GlobalRanks : ReturnedTrue(g) )

(* C35: when every rank calls save_checkpoint and no rank leaves it with   *)
(* an exception, the call eventually returns on every rank, for every      *)
(* layout and every way the job is started: no rank waits forever at a     *)
(* barrier another rank never enters.                                      *)
C35_SaveReturnsOnEveryRank ==
    <>( \/ \E g \in GlobalRanks : save[g].pc = "raised"
        \/ \A g \in GlobalRanks : ReturnedTrue(g) )


(* The files rank g is responsible for: the model states of its            *)
(* model-parallel rank when it is data-parallel rank 0, and its shard of   *)
(* the optimizer states when the optimizer is partitioned.                 *)
ResponsibleFiles(g) ==
    (IF get_data_parallel_rank(g) = 0
     THEN {get_ckpt_name(save_dir, tag, get_model_parallel_rank(g))}
     ELSE {})
    \cup
    (IF zero_optimization
     THEN {get_rank_zero_ckpt_name(save_dir, tag, get_model_parallel_rank(g), pp_rank(g))}
     ELSE {})

(* C36: when save_checkpoint has returned True on a rank, every file the   *)
(* rank is responsible for has been written, also when the creation of     *)
(* the directory has failed.                                               *)
C36_TrueMeansFilesWritten ==
    \A g \in GlobalRanks :
        ReturnedTrue(g) => ResponsibleFiles(g) \subseteq DOMAIN files

(* The same where the launcher has set args.local_rank. *)
TrueMeansFilesWrittenWhenLaunched ==
    local_rank_set => C36_TrueMeansFilesWritten

(* A rank has returned True without its shard of the optimizer states. *)
ReturnedTrueWithoutShard ==
    \E g \in GlobalRanks :
        /\ ReturnedTrue(g)
        /\ zero_optimization
        /\ get_rank_zero_ckpt_name(save_dir, tag, get_model_parallel_rank(g), pp_rank(g))
               \notin DOMAIN files

(* The creation of the directory has failed on a rank with nothing         *)
(* created, and torch.save has raised on it: no True is returned.          *)
CreationFailedThenRaised ==
    \E g \in GlobalRanks :
        /\ local_rank_set
        /\ save[g].create_failed
        /\ save[g].pc = "raised"
        /\ checkpoint_dirname(save_dir, tag) \notin dirs

(* The creation has failed on a rank because another rank has made the    *)
(* directory first, and the rank has returned True with its files.         *)
CreationFailedThenWritten ==
    \E g \in GlobalRanks :
        /\ local_rank_set
        /\ save[g].create_failed
        /\ ReturnedTrue(g)
        /\ ResponsibleFiles(g) # {}
        /\ ResponsibleFiles(g) \subseteq DOMAIN files


(* Entry i of the write log is a model-state file whose engine-owned       *)
(* entries are the values the saving engine had.                           *)
HoldsEngineValues(i) ==
    LET e == write_log[i].engine
        state == files[write_log[i].path]
    IN  /\ state.global_steps = e.global_steps
        /\ state.skipped_steps = e.skipped_steps
        /\ state.dp_world_size = dp_world_size
        /\ state.mp_world_size = mp_world_size
        /\ state.csr_tensor_module_names = csr_tensor_module_names
        /\ state.module = module_state_dict(e)

ModelStateWritten(i) ==
    /\ write_log[i].kind = "model_states"
    /\ write_log[i].path \in DOMAIN files

(* C37: the engine-owned entries of a written model-state file hold the    *)
(* engine's own values at save time, for every client_state passed to      *)
(* save_checkpoint, also one with keys of those names.                     *)
C37_EngineEntriesHoldEngineValues ==
    \A i \in DOMAIN write_log : ModelStateWritten(i) => HoldsEngineValues(i)

(* The same for a client_state without engine-owned keys. *)
EngineEntriesHoldWithoutCollision ==
    DOMAIN client_state \cap deepspeed_states = {}
        => C37_EngineEntriesHoldEngineValues

(* A file is written with the client's global_steps, and a load has        *)
(* restored it in place of the engine's.                                   *)
ClientCounterRestored ==
    /\ "global_steps" \in DOMAIN client_state
    /\ "none" \notin DOMAIN loader
    /\ load_result.made
    /\ \E i \in DOMAIN write_log :
          /\ ModelStateWritten(i)
          /\ write_log[i].engine.global_steps # client_state.global_steps
          /\ loader.global_steps = client_state.global_steps


(* A load has found the model-state file and restored from it. *)
Loaded ==
    /\ load_result.made
    /\ "rank" \in DOMAIN loader
    /\ load_result.load_path # "None"

(* The engine as it would be if its place in the accumulation cycle came   *)
(* from its global_steps.                                                  *)
PlacedByGlobalSteps(ld) ==
    [ld EXCEPT !.micro_steps = ld.global_steps * gradient_accumulation_steps]

(* C38: load_checkpoint leaves micro_steps as it was in the loading        *)
(* engine, so that whether the next step() is a boundary is what it was    *)
(* before the load, whatever global_steps has been restored.               *)
C38_LoadKeepsMicroSteps ==
    Loaded =>
        /\ "micro_steps" \notin DOMAIN files[load_result.load_path]
        /\ loader.micro_steps = load_result.before.micro_steps
        /\ is_gradient_accumulation_boundary(loader)
               <=> is_gradient_accumulation_boundary(load_result.before)

(* A load has restored a global_steps that is not the loading engine's,    *)
(* and the next step() is a boundary by the engine's micro_steps where the *)
(* restored global_steps would place it inside a cycle.                    *)
C38_Witness ==
    /\ Loaded
    /\ loader.global_steps # load_result.before.global_steps
    /\ is_gradient_accumulation_boundary(loader)
    /\ ~is_gradient_accumulation_boundary(PlacedByGlobalSteps(loader))


(***************************************************************************)
(* The progress reports of step(). progress holds steps_per_print, the     *)
(* boundary at which the optimizer overflows (0 for none), and per rank    *)
(* one entry for each step() call.                                         *)
(***************************************************************************)
MaxStepsPerPrint == 2

(* Mutant: the flag is written as `self.global_rank and                    *)
(* self.global_rank == 0`, which the falsy rank 0 makes false.             *)
report_progress_DisabledByTruthiness(global_rank) ==
    global_rank # 0 /\ global_rank = 0

(* report_progress = self.global_rank == 0 if self.global_rank else True:  *)
(* the condition is the truthiness of the rank, which is false for 0.      *)
report_progress(global_rank) ==
    IF global_rank # 0 THEN global_rank = 0 ELSE TRUE

steps_per_print == progress.steps_per_print

(* step() as a whole, with what it reports. *)
StepProgress(r) ==
    /\ pc[r] = "backward_done"
    /\ LET e == engine[r]
           flag == report_progress(engine_global_rank(r))
           boundary == is_gradient_accumulation_boundary(e)
           overflow == /\ boundary
                       /\ OptimizerHasOverflow
                       /\ e.global_steps + 1 = progress.overflow_at
           reports == /\ boundary
                      /\ ~overflow
                      /\ flag
                      /\ (e.global_steps + 1) % steps_per_print = 0
       IN  /\ engine' = [engine EXCEPT ![r] =
                            IF boundary
                            THEN StepTail(StepHead(@), overflow)
                            ELSE StepNonBoundary(@)]
           /\ progress' = [progress EXCEPT !.calls[r] =
                              Append(@, [ global_rank |-> engine_global_rank(r),
                                          report_progress |-> flag,
                                          boundary |-> boundary,
                                          overflow |-> overflow,
                                          global_steps |-> e.global_steps,
                                          reported |-> IF reports
                                                       THEN e.global_steps + 1
                                                       ELSE 0,
                                          tput_timer_stop |-> flag ])]
    /\ pc' = [pc EXCEPT ![r] = "idle"]
    /\ step_calls' = [step_calls EXCEPT ![r] = @ + 1]
    /\ UNCHANGED <<dp_world_size, config, script, reduce_log, ovf_flags, ovf_results,
                   ovf_round, decision_log, step_pre, last, query>>
    /\ UNCHANGED <<redVars, csrVars, ckptVars, conVars, lossVars>>

BackwardProgress(r) ==
    /\ pc[r] = "forward_done"
    /\ engine' = [engine EXCEPT ![r].grad_count = @ + 1]
    /\ pc' = [pc EXCEPT ![r] = "backward_done"]
    /\ UNCHANGED <<dp_world_size, config, script, reduce_log, ovf_flags, ovf_results,
                   ovf_round, decision_log, step_calls, step_pre, last, query>>
    /\ UNCHANGED sideVars

ProgressConfigs ==
    { [DefaultConfig EXCEPT !.gradient_accumulation_steps = k, !.fp16_enabled = f] :
          k \in 1 .. MaxK, f \in BOOLEAN }

ProgressInit ==
    /\ InitController(NumRanks, ProgressConfigs, {DefaultScript})
    /\ NoReduction
    /\ NoGather
    /\ NoCheckpoint
    /\ NoLoss
    /\ init_args \in { a \in InitArgs : a.optimizer /\ a.model_parameters /\ ~a.mpu }
    /\ parallel_groups = [ none |-> TRUE ]
    /\ construct = <<>>
    /\ \E n \in 1 .. MaxStepsPerPrint :
       \E o \in IF OptimizerHasOverflow THEN 0 .. MaxMicro ELSE {0} :
           progress = [ steps_per_print |-> n,
                        overflow_at |-> o,
                        calls |-> [r \in Ranks |-> <<>>] ]

ProgressNext ==
    \/ \E r \in Ranks : Forward(r)
    \/ \E r \in Ranks : BackwardProgress(r)
    \/ \E r \in Ranks : StepProgress(r)

ProgressSpec == ProgressInit /\ [][ProgressNext]_vars

(* C39: in step() the progress-reporting flag is true exactly on the rank  *)
(* whose global rank is 0, and progress is reported exactly by that rank   *)
(* at a boundary without overflow where (global_steps + 1) %               *)
(* steps_per_print = 0; the flag of rank 0 is never false.                 *)
C39_ReportProgressOnRankZero ==
    \A r \in Ranks : \A i \in DOMAIN progress.calls[r] :
        LET call == progress.calls[r][i]
        IN  /\ call.report_progress <=> call.global_rank = 0
            /\ call.tput_timer_stop = call.report_progress
            /\ call.reported # 0 <=>
                   /\ call.global_rank = 0
                   /\ call.boundary
                   /\ ~call.overflow
                   /\ (call.global_steps + 1) % steps_per_print = 0
            /\ call.reported # 0 => call.reported = call.global_steps + 1

(* Rank 0 has reported a step, the other rank has taken the same step      *)
(* with its flag false, and a boundary with overflow has reported nothing. *)
C39_Witness ==
    /\ local_rank_set
    /\ \E i \in DOMAIN progress.calls[0] :
          /\ progress.calls[0][i].reported # 0
          /\ i \in DOMAIN progress.calls[1]
          /\ ~progress.calls[1][i].report_progress
          /\ progress.calls[1][i].boundary
    /\ \E i \in DOMAIN progress.calls[0] :
          /\ progress.calls[0][i].overflow
          /\ progress.calls[0][i].report_progress
          /\ progress.calls[0][i].reported = 0

(* With args.local_rank < 0 every process has global_rank 0 and reports. *)
EveryProcessReports ==
    /\ ~local_rank_set
    /\ \A r \in Ranks : \E i \in DOMAIN progress.calls[r] :
          progress.calls[r][i].reported # 0

====
